---- MODULE Spec2Model ----
(***************************************************************************)
(* A model of the 3D view of JupyterGIS (lbartoletti/jupytergis):          *)
(*   - geojsonToThree, the GeoJSON -> scene object conversion,             *)
(*   - ThreeViewer, the object that owns the scene, the camera, the render *)
(*     loop and the loaded content,                                        *)
(*   - processSFCGALOperation, the asynchronous SFCGAL processing command. *)
(*                                                                         *)
(* Numbers.  The centroid is a mean, so emitted coordinates are rationals. *)
(* They are kept exact: a conversion whose centroid is the mean of n       *)
(* tuples stores every length multiplied by n (field den of the result).   *)
(***************************************************************************)
EXTENDS Integers, Sequences, FiniteSets, TLC

\* null as a JSON value (no geojson, no geometry, no crs member), null as an
\* object or frame handle, and null as a string.
NULL == [null |-> TRUE]

null == 0

noCode == ""

(***************************************************************************)
(* Bounds of the model.                                                    *)
(***************************************************************************)
MaxLoads == 2
MaxFrames == 1
MaxDisposeCalls == 1
MaxInvocations == 2

(***************************************************************************)
(* Small helpers.                                                          *)
(***************************************************************************)
Max2(a, b) == IF a >= b THEN a ELSE b

Min2(a, b) == IF a <= b THEN a ELSE b

CeilDiv(a, b) == IF a % b = 0 THEN a \div b ELSE (a \div b) + 1

RECURSIVE Flat(_)
Flat(ss) == IF ss = << >> THEN << >> ELSE Head(ss) \o Flat(Tail(ss))

RECURSIVE SumComp(_, _)
SumComp(ps, k) ==
  IF ps = << >> THEN 0
  ELSE (IF Len(Head(ps)) >= k THEN Head(ps)[k] ELSE 0) + SumComp(Tail(ps), k)

(***************************************************************************)
(* GeoJSON values.  A geometry is [type, coordinates]; a feature is        *)
(* [geometry] with geometry possibly NULL; the input of the conversion is  *)
(* [features, crs].                                                        *)
(***************************************************************************)
Geom(t, c) == [type |-> t, coordinates |-> c]

FC(gs, crs) == [features |-> [i \in 1..Len(gs) |-> [geometry |-> gs[i]]], crs |-> crs]

(***************************************************************************)
(* getProjectionCode / needsTransformation / the has3DCoordinates scan.    *)
(***************************************************************************)
getProjectionCode(geojson) ==
  IF geojson.crs = NULL THEN noCode
  ELSE IF geojson.crs.urn THEN geojson.crs.authority \o ":" \o geojson.crs.code
  ELSE geojson.crs.name

hasZ(point) == Len(point) > 2

someHasZ(points) == \E i \in 1..Len(points) : hasZ(points[i])

geometryHas3D(g) ==
  CASE g.type = "Point" -> hasZ(g.coordinates)
    [] g.type \in {"MultiPoint", "LineString"} -> someHasZ(g.coordinates)
    [] g.type \in {"MultiLineString", "Polygon"} ->
         \E i \in 1..Len(g.coordinates) : someHasZ(g.coordinates[i])
    [] g.type = "MultiPolygon" ->
         \E i \in 1..Len(g.coordinates) :
           \E j \in 1..Len(g.coordinates[i]) : someHasZ(g.coordinates[i][j])
    [] g.type \in {"TIN", "PolyhedralSurface"} -> TRUE
    [] OTHER -> FALSE

firstFeatureHas3D(features) ==
  /\ Len(features) >= 1
  /\ features[1].geometry # NULL
  /\ geometryHas3D(features[1].geometry)

has3DCoordinates(features) ==
  \E i \in 1..Len(features) :
    /\ features[i].geometry # NULL
    /\ geometryHas3D(features[i].geometry)

(***************************************************************************)
(* transformCoordinates: the registry lookup of proj4list and the proj4    *)
(* call.  The projection itself is the library's; it is modelled by a map  *)
(* that moves every coordinate, so that a reprojection is visible.         *)
(***************************************************************************)
proj4list == {"EPSG:3946", "EPSG:2154", "ESRI:53009"}

\* The registered codes whose definition the projection library cannot use:
\* defining or applying them throws.
proj4Throws == {"ESRI:53009"}

proj4(sourceCRS, coordinates) ==
  [i \in 1..Len(coordinates) |->
     IF i <= 2 THEN 2 * coordinates[i] + 1 ELSE coordinates[i]]

proj4Always(coordinates, sourceCRS) == proj4(sourceCRS, coordinates)

\* An unregistered code returns the coordinates as they are; so does the
\* catch block when the library throws.
transformCoordinates(coordinates, sourceCRS) ==
  IF sourceCRS \notin proj4list THEN coordinates
  ELSE IF sourceCRS \in proj4Throws THEN coordinates
  ELSE proj4(sourceCRS, coordinates)

mapPoints(points, sourceCRS) ==
  [i \in 1..Len(points) |-> transformCoordinates(points[i], sourceCRS)]

transformGeometry(g, sourceCRS) ==
  CASE g.type = "Point" ->
         [g EXCEPT !.coordinates = transformCoordinates(g.coordinates, sourceCRS)]
    [] g.type \in {"MultiPoint", "LineString"} ->
         [g EXCEPT !.coordinates = mapPoints(g.coordinates, sourceCRS)]
    [] g.type \in {"MultiLineString", "Polygon"} ->
         [g EXCEPT !.coordinates =
            [i \in 1..Len(g.coordinates) |-> mapPoints(g.coordinates[i], sourceCRS)]]
    [] g.type \in {"MultiPolygon", "TIN", "PolyhedralSurface"} ->
         [g EXCEPT !.coordinates =
            [i \in 1..Len(g.coordinates) |->
               [j \in 1..Len(g.coordinates[i]) |->
                  mapPoints(g.coordinates[i][j], sourceCRS)]]]
    [] OTHER -> g

(***************************************************************************)
(* collectCoordinatesFromGeometry and the centroid.                        *)
(***************************************************************************)
collectCoordinatesWithDefault(g) ==
  CASE g.type = "Point" -> << g.coordinates >>
    [] g.type \in {"MultiPoint", "LineString"} -> g.coordinates
    [] g.type \in {"MultiLineString", "Polygon"} -> Flat(g.coordinates)
    [] g.type \in {"MultiPolygon", "TIN", "PolyhedralSurface"} ->
         Flat([i \in 1..Len(g.coordinates) |-> Flat(g.coordinates[i])])
    [] OTHER -> << <<0, 0, 0>> >>

collectCoordinatesFromGeometry(g) ==
  CASE g.type = "Point" -> << g.coordinates >>
    [] g.type \in {"MultiPoint", "LineString"} -> g.coordinates
    [] g.type \in {"MultiLineString", "Polygon"} -> Flat(g.coordinates)
    [] g.type \in {"MultiPolygon", "TIN", "PolyhedralSurface"} ->
         Flat([i \in 1..Len(g.coordinates) |-> Flat(g.coordinates[i])])
    [] OTHER -> << >>

allCoordinates(features) ==
  Flat([i \in 1..Len(features) |->
          IF features[i].geometry = NULL THEN << >>
          ELSE collectCoordinatesFromGeometry(features[i].geometry)])

centroidOfXY(coords) ==
  IF Len(coords) = 0 THEN [s |-> <<0, 0, 0>>, n |-> 1]
  ELSE [s |-> <<SumComp(coords, 1), SumComp(coords, 2), 0>>, n |-> Len(coords)]

\* The centroid as sums over a common denominator n (n = 1 and sums 0 when
\* there is no coordinate: the zero vector).
centroidOf(coords) ==
  IF Len(coords) = 0 THEN [s |-> <<0, 0, 0>>, n |-> 1]
  ELSE [s |-> <<SumComp(coords, 1), SumComp(coords, 2), SumComp(coords, 3)>>,
        n |-> Len(coords)]

\* (p - centroid) multiplied by c.n, a missing Z counting as 0.
centered(p, c) ==
  << c.n * p[1] - c.s[1], c.n * p[2] - c.s[2],
     c.n * (IF Len(p) >= 3 THEN p[3] ELSE 0) - c.s[3] >>

\* The XY point of a THREE.Shape: Z is not read, the shape lies in z = 0.
shapePoint(p, c) == << c.n * p[1] - c.s[1], c.n * p[2] - c.s[2], 0 >>

(***************************************************************************)
(* THREE.Box3.  An empty box has no corner; getSize and getCenter of an    *)
(* empty box are the zero vector.                                          *)
(***************************************************************************)
EmptyBox == [empty |-> TRUE, min |-> <<0, 0, 0>>, max |-> <<0, 0, 0>>]

expandByPoint(b, p) ==
  IF b.empty THEN [empty |-> FALSE, min |-> p, max |-> p]
  ELSE [empty |-> FALSE,
        min |-> [k \in 1..3 |-> Min2(b.min[k], p[k])],
        max |-> [k \in 1..3 |-> Max2(b.max[k], p[k])]]

RECURSIVE setFromPoints(_, _)
setFromPoints(b, ps) ==
  IF ps = << >> THEN b ELSE setFromPoints(expandByPoint(b, Head(ps)), Tail(ps))

union(a, b) ==
  IF b.empty THEN a ELSE expandByPoint(expandByPoint(a, b.min), b.max)

getSize(b) ==
  IF b.empty THEN <<0, 0, 0>> ELSE [k \in 1..3 |-> b.max[k] - b.min[k]]

\* The centre multiplied by 2 (the sum of the two corners).
getCenter2(b) ==
  IF b.empty THEN <<0, 0, 0>> ELSE [k \in 1..3 |-> b.max[k] + b.min[k]]

(***************************************************************************)
(* The primitives geojsonToThree builds.  kind is the THREE class, build   *)
(* the constructor path; slot names which of the two materials created for *)
(* the feature the primitive uses.                                         *)
(***************************************************************************)
Prim(kind, build, slot, vertices, index, position, box) ==
  [kind |-> kind, build |-> build, slot |-> slot, vertices |-> vertices,
   index |-> index, position |-> position, box |-> box]

Threw == [threw |-> TRUE, prims |-> << >>]

Built(prims) == [threw |-> FALSE, prims |-> prims]

\* EdgesGeometry of the mesh, added when the wireframe option is set; the
\* bounding box is not expanded by it.
edgeOutline(wireframe) ==
  IF wireframe
  THEN << Prim("LineSegments", "edges", "wireframeMaterial", << >>, << >>,
               <<0, 0, 0>>, EmptyBox) >>
  ELSE << >>

\* A JavaScript number that may be NaN.
Num(x) == [nan |-> FALSE, value |-> x]

NaN == [nan |-> TRUE, value |-> 0]

\* The number an array becomes in an arithmetic expression: the empty array
\* is 0, an array of one number is that number, any longer array is NaN.
arrayToNumber(a) ==
  IF Len(a) = 0 THEN Num(0) ELSE IF Len(a) = 1 THEN Num(a[1]) ELSE NaN

\* val - centroid component k, multiplied by c.n.
minusCentroid(val, c, k) ==
  IF val.nan THEN NaN ELSE Num(c.n * val.value - c.s[k])

\* geometry.coordinates.flat(2) of a list of faces, each a list of rings:
\* the list of the points, each still an array.
flat2(coordinates) ==
  Flat([i \in 1..Len(coordinates) |-> Flat(coordinates[i])])

\* The TIN / PolyhedralSurface case: every element of flat(2) has the X, Y
\* or Z component of the centroid subtracted, by its index modulo 3.  What
\* Box3 makes of NaN positions differs between releases of three.js; the box
\* of this mesh is recorded as empty and is not read by any property.
surfacePrims(coordinates, opts, c) ==
  Built(<< Prim("Mesh", "positions", "material",
                [i \in 1..Len(flat2(coordinates)) |->
                   minusCentroid(arrayToNumber(flat2(coordinates)[i]), c,
                                 ((i - 1) % 3) + 1)],
                << >>, <<0, 0, 0>>, EmptyBox) >>
        \o edgeOutline(opts.wireframe))

fanIndicesToLast(n) ==
  IF n >= 3 THEN [i \in 1..(n - 1) |-> <<0, i, i + 1>>] ELSE << >>

fanIndices(n) ==
  IF n >= 3 THEN [i \in 1..(n - 2) |-> <<0, i, i + 1>>] ELSE << >>

\* One polygon (its list of rings): the 3D fan path, or the 2D shape path
\* with optional extrusion.  Reading ring 0 of an empty ring list, or point 0
\* of an empty ring in the shape path, is a TypeError.
polygonPrims(poly, has3D, opts, c) ==
  IF has3D /\ ~opts.extrude
  THEN IF Len(poly) = 0 THEN Threw
       ELSE LET outerRing == poly[1]
                ringPoints == SubSeq(outerRing, 1, Len(outerRing) - 1)
                vertices == [i \in 1..Len(ringPoints) |-> centered(ringPoints[i], c)]
            IN Built(<< Prim("Mesh", "fan", "material", vertices,
                             fanIndices(Len(vertices)), <<0, 0, 0>>,
                             setFromPoints(EmptyBox, vertices)) >>
                     \o edgeOutline(opts.wireframe))
  ELSE IF Len(poly) = 0 \/ Len(poly[1]) = 0 THEN Threw
       ELSE LET points == poly[1]
                shape == [i \in 1..Len(points) |-> shapePoint(points[i], c)]
                flat == setFromPoints(EmptyBox, shape)
            IN IF opts.extrude
               THEN Built(<< Prim("Mesh", "extrude", "material", shape, << >>,
                                  <<0, 0, 0>>,
                                  expandByPoint(flat,
                                    <<flat.max[1], flat.max[2],
                                      c.n * opts.extrudeHeight>>)) >>
                          \o edgeOutline(opts.wireframe))
               ELSE Built(<< Prim("Mesh", "shape", "material", shape, << >>,
                                  <<0, 0, 0>>, flat) >>)

RECURSIVE multiPolygonPrims(_, _, _, _)
multiPolygonPrims(polys, has3D, opts, c) ==
  IF polys = << >> THEN Built(<< >>)
  ELSE LET first == polygonPrims(Head(polys), has3D, opts, c)
           rest == multiPolygonPrims(Tail(polys), has3D, opts, c)
       IN IF first.threw \/ rest.threw THEN Threw
          ELSE Built(first.prims \o rest.prims)

\* A SphereGeometry of radius 1 placed at the centred coordinate.
pointPrim(p, c) ==
  LET pos == centered(p, c)
  IN Prim("Mesh", "sphere", "material", << >>, << >>, pos,
          [empty |-> FALSE,
           min |-> [k \in 1..3 |-> pos[k] - c.n],
           max |-> [k \in 1..3 |-> pos[k] + c.n]])

linePrim(line, c) ==
  LET points == [i \in 1..Len(line) |-> centered(line[i], c)]
  IN Prim("Line", "line", "wireframeMaterial", points, << >>, <<0, 0, 0>>,
          setFromPoints(EmptyBox, points))

geometryPrims(g, has3D, opts, c) ==
  CASE g.type = "Polygon" -> polygonPrims(g.coordinates, has3D, opts, c)
    [] g.type = "MultiPolygon" -> multiPolygonPrims(g.coordinates, has3D, opts, c)
    [] g.type = "Point" -> Built(<< pointPrim(g.coordinates, c) >>)
    [] g.type = "MultiPoint" ->
         Built([i \in 1..Len(g.coordinates) |-> pointPrim(g.coordinates[i], c)])
    [] g.type = "LineString" -> Built(<< linePrim(g.coordinates, c) >>)
    [] g.type = "MultiLineString" ->
         Built([i \in 1..Len(g.coordinates) |-> linePrim(g.coordinates[i], c)])
    [] g.type \in {"TIN", "PolyhedralSurface"} ->
         surfacePrims(g.coordinates, opts, c)
    [] OTHER -> Built(<< >>)

RECURSIVE featurePrims(_, _, _, _, _)
featurePrims(features, i, has3D, opts, c) ==
  IF i > Len(features) THEN Built(<< >>)
  ELSE LET g == features[i].geometry
           first == IF g = NULL THEN Built(<< >>)
                    ELSE geometryPrims(g, has3D, opts, c)
           rest == featurePrims(features, i + 1, has3D, opts, c)
       IN IF first.threw \/ rest.threw THEN Threw
          ELSE Built([k \in 1..Len(first.prims) |->
                        [feature |-> i] @@ first.prims[k]] \o rest.prims)

RECURSIVE expandByObjects(_, _)
expandByObjects(b, boxes) ==
  IF boxes = << >> THEN b
  ELSE expandByObjects(union(b, Head(boxes)), Tail(boxes))

defaultOptions ==
  [color |-> "0x00ff00", extrude |-> FALSE, extrudeHeight |-> 10,
   wireframe |-> TRUE, wireframeColor |-> "0x000000"]

\* geojsonToThree: [threw], or the root object's children, the bounding box
\* and the denominator den of every length in them.
transformAlways(sourceCRS, has3D) == sourceCRS # noCode

\* needsTransformation && sourceCRS && !has3DCoordinates
shouldTransformFrom(sourceCRS, has3D) ==
  (sourceCRS # noCode /\ sourceCRS # "EPSG:4326") /\ sourceCRS # "" /\ ~has3D

geojsonToThree(geojson, options) ==
  LET sourceCRS == getProjectionCode(geojson)
      features == geojson.features
      has3D == has3DCoordinates(features)
      shouldTransform == shouldTransformFrom(sourceCRS, has3D)
      transformedFeatures ==
        IF shouldTransform
        THEN [i \in 1..Len(features) |->
                IF features[i].geometry = NULL THEN features[i]
                ELSE [geometry |-> transformGeometry(features[i].geometry, sourceCRS)]]
        ELSE features
      c == centroidOf(allCoordinates(transformedFeatures))
      built == featurePrims(transformedFeatures, 1, has3D, options, c)
  IN IF built.threw THEN [threw |-> TRUE]
     ELSE [threw |-> FALSE, children |-> built.prims, den |-> c.n,
           has3D |-> has3D, shouldTransform |-> shouldTransform, centroid |-> c,
           nFeatures |-> Len(features),
           boundingBox |->
             expandByObjects(EmptyBox,
               [i \in 1..Len(built.prims) |-> built.prims[i].box])]

(***************************************************************************)
(* computeCameraPosition.  Lengths are in millionths of a unit.  The       *)
(* distance is maxSize / (2 * Math.atan(Math.PI * fov / 360)), divided by  *)
(* aspect for the width, and the unit direction is (1, -1, 1) / sqrt(3):   *)
(* each component of the offset is distance / sqrt(3).                     *)
(***************************************************************************)
Micro(x2, den) == (x2 * 500000) \div den

\* 1000000 / (2 * atan(pi * fov / 360)) / sqrt(3) for the fields of view in use.
atanFactor(fov) ==
  CASE fov = 50 -> 701639
    [] fov = 90 -> 433593

\* The component of direction.multiplyScalar(distance), aspect being the
\* ratio aspect[1] / aspect[2].
cameraOffset(maxSize, den, fov, aspect) ==
  Max2((maxSize * atanFactor(fov)) \div den,
       (((maxSize * atanFactor(fov)) \div den) * aspect[2]) \div aspect[1])

computeCameraPositionWith(boundingBox, den, fov, aspect) ==
  LET size == getSize(boundingBox)
      center2 == getCenter2(boundingBox)
      k == cameraOffset(Max2(size[1], Max2(size[2], size[3])), den, fov, aspect)
  IN << Micro(center2[1], den) + k, Micro(center2[2], den) - k,
        Micro(center2[3], den) + k >>

\* The call with the default arguments, fov = 50 and aspect = 1.
computeCameraPosition(boundingBox, den) ==
  computeCameraPositionWith(boundingBox, den, 50, <<1, 1>>)

boxCenter(boundingBox, den) ==
  LET center2 == getCenter2(boundingBox)
  IN << Micro(center2[1], den), Micro(center2[2], den), Micro(center2[3], den) >>

DefaultCameraPosition == <<100000000, -100000000, 100000000>>

(***************************************************************************)
(* The state.                                                              *)
(*   ThreeViewer: scene.children (object ids, in order), currentObject,    *)
(*   animationId, camera, controls; objects and resources are the heap:    *)
(*   every Object3D, geometry and material ever created, with the number   *)
(*   of dispose() calls each geometry and material has received.           *)
(*   The browser: pendingFrames, the requestAnimationFrame callbacks not   *)
(*   yet run or cancelled.                                                 *)
(*   Observations: lastCall (the last public call and whether it threw),   *)
(*   lastLoad (how the last loadGeoJSON ended), and the counts loads,      *)
(*   disposeCalls and loopRenders.                                         *)
(***************************************************************************)
VARIABLES sceneChildren, currentObject, animationId, camera,
          controls, renderer, objects, resources, nextId, pendingFrames,
          nextFrame, lastCall, lastLoad, loads, disposeCalls, loopRenders

viewerVars == <<sceneChildren, currentObject, animationId, camera,
                controls, renderer, objects, resources, nextId, pendingFrames,
                nextFrame, lastCall, lastLoad, loads, disposeCalls, loopRenders>>

\* The state of the processing commands: the invocations of the SFCGAL
\* command, the tracker's current widget, the sources and the layers of each
\* document, the files of the contents manager and the identifiers handed out.
VARIABLES invocations, currentWidget, sources, layers, files, nextUuid

sfcgalVars == <<invocations, currentWidget, sources, layers, files, nextUuid>>

\* The ThreeView component: this.viewer, this.props (viewProps), this.state
\* (viewState), the layers of its gisModel in getLayers() order, whether
\* _onLayersChanged is connected to sharedLayersChanged, and the last
\* lifecycle method or signal handler that ran (lastEvent).
VARIABLES viewer, viewProps, viewState, gisLayers, connected, lastEvent

componentVars == <<viewer, viewProps, viewState, gisLayers, connected, lastEvent>>

\* The last call of geojsonToThree and of computeCameraPosition on their own:
\* the arguments and what was returned.
VARIABLES conversion, framing

pureVars == <<conversion, framing>>

vars == <<viewerVars, sfcgalVars, componentVars, pureVars>>

Returned(op) == [op |-> op, threw |-> FALSE]

Thrown(op) == [op |-> op, threw |-> TRUE]

Lights == {"AmbientLight", "DirectionalLight", "HemisphereLight"}

\* instanceof THREE.Line: Line, LineSegments and the helpers derived from it.
Lines == {"Line", "LineSegments", "GridHelper", "AxesHelper"}

Object3D(kind, geom, mat, children, info) ==
  [kind |-> kind, geometry |-> geom, material |-> mat, children |-> children,
   visible |-> TRUE, info |-> info]

Geometry == [type |-> "geometry", disposed |-> 0]

Material(color, opacity, transparent) ==
  [type |-> "material", disposed |-> 0, color |-> color, opacity |-> opacity,
   transparent |-> transparent]

RemoveAt(seq, i) == SubSeq(seq, 1, i - 1) \o SubSeq(seq, i + 1, Len(seq))

\* Object3D.traverse over the direct children of the scene with a callback
\* that removes the children of the given kinds: the loop caches the length
\* of the array it iterates, so after a removal it skips the next child and
\* ends on an undefined element, where calling traverse is a TypeError.
RECURSIVE traverseRemoving(_, _, _, _, _)
traverseRemoving(objs, children, i, l, kinds) ==
  IF i > l THEN [threw |-> FALSE, children |-> children]
  ELSE IF i > Len(children) THEN [threw |-> TRUE, children |-> children]
  ELSE IF objs[children[i]].kind \in kinds
       THEN traverseRemoving(objs, RemoveAt(children, i), i + 1, l, kinds)
       ELSE traverseRemoving(objs, children, i + 1, l, kinds)

removeKindsByTraversalOnly(objs, children, kinds) ==
  traverseRemoving(objs, children, 1, Len(children), kinds).children

\* try { scene.traverse(remove) } catch { reverse loop over scene.children }
removeKinds(objs, children, kinds) ==
  LET r == traverseRemoving(objs, children, 1, Len(children), kinds)
      keep(id) == objs[id].kind \notin kinds
  IN IF r.threw THEN SelectSeq(r.children, keep) ELSE r.children

\* The geometry and material ids disposeObject releases, in order: one pair
\* per Mesh or Line met by object.traverse (the object, then its children).
disposalsOf(objs, id) ==
  LET own == IF objs[id].kind \in Lines \cup {"Mesh"}
             THEN << objs[id].geometry, objs[id].material >> ELSE << >>
      kids == objs[id].children
  IN own \o Flat([i \in 1..Len(kids) |->
                    IF objs[kids[i]].kind \in Lines \cup {"Mesh"}
                    THEN << objs[kids[i]].geometry, objs[kids[i]].material >>
                    ELSE << >>])

RECURSIVE disposeAll(_, _)
disposeAll(res, ids) ==
  IF ids = << >> THEN res
  ELSE disposeAll([res EXCEPT ![Head(ids)].disposed = @ + 1], Tail(ids))

disposeObject(objs, res, id) == disposeAll(res, disposalsOf(objs, id))

\* The Mesh and Line objects scene.traverse meets: the direct children of the
\* scene and the children of the content object.
sceneMeshesAndLines(objs, children) ==
  Flat([i \in 1..Len(children) |->
          (IF objs[children[i]].kind \in Lines \cup {"Mesh"}
           THEN << children[i] >> ELSE << >>)
          \o SelectSeq(objs[children[i]].children,
                       LAMBDA k : objs[k].kind \in Lines \cup {"Mesh"})])

(***************************************************************************)
(* setupLights: remove the lights of the scene, then add an ambient, a     *)
(* directional and a hemisphere light.  The directional light sits at      *)
(* lightDistance = maxDimension ? max(maxDimension * 0.5, 100) : 100 on    *)
(* each axis, kept as the fraction num / den.                              *)
(***************************************************************************)
lightDistance(maxSize, den) ==
  IF maxSize = 0 THEN [num |-> 100, den |-> 1]
  ELSE [num |-> Max2(maxSize, 200 * den), den |-> 2 * den]

newLights(id, distance) ==
  (id :> Object3D("AmbientLight", 0, 0, << >>, [intensity |-> 60]))
  @@ (id + 1 :> Object3D("DirectionalLight", 0, 0, << >>, [position |-> distance]))
  @@ (id + 2 :> Object3D("HemisphereLight", 0, 0, << >>, [intensity |-> 40]))

setupLights(objs, children, id, distance) ==
  [children |-> removeKinds(objs, children, Lights) \o <<id, id + 1, id + 2>>,
   objects |-> newLights(id, distance) @@ objs]

(***************************************************************************)
(* The state after the constructor: lights, the axes helper, the default   *)
(* camera, and the first frame requested by the call of animate().         *)
(***************************************************************************)
ViewerInit ==
  /\ objects = newLights(1, [num |-> 100, den |-> 1])
               @@ (4 :> Object3D("AxesHelper", 5, 6, << >>, [size |-> 50]))
  /\ resources = (5 :> Geometry) @@ (6 :> Material("vertexColors", 100, FALSE))
  /\ nextId = 7
  /\ sceneChildren = <<1, 2, 3, 4>>
  /\ currentObject = null
  /\ camera = [position |-> DefaultCameraPosition, aspect |-> <<4, 3>>]
  /\ controls = [target |-> <<0, 0, 0>>, disposed |-> 0]
  /\ renderer = [size |-> <<4, 3>>, disposed |-> 0]
  /\ animationId = 1
  /\ pendingFrames = {1}
  /\ nextFrame = 2
  /\ loopRenders = 1
  /\ lastCall = Returned("constructor")
  /\ lastLoad = "none"
  /\ loads = 0
  /\ disposeCalls = 0

(***************************************************************************)
(* animate: the frame callback.  It requests the next frame, then updates  *)
(* the controls and renders.                                               *)
(***************************************************************************)
animate(f) ==
  /\ f \in pendingFrames
  /\ loopRenders <= MaxFrames
  /\ pendingFrames' = (pendingFrames \ {f}) \cup {nextFrame}
  /\ animationId' = nextFrame
  /\ nextFrame' = nextFrame + 1
  /\ loopRenders' = loopRenders + 1
  /\ UNCHANGED <<sceneChildren, currentObject, camera, controls,
                 renderer, objects, resources, nextId, lastCall, lastLoad,
                 loads, disposeCalls>>
  /\ UNCHANGED <<sfcgalVars, componentVars, pureVars>>

(***************************************************************************)
(* The inputs of the viewer.                                               *)
(***************************************************************************)
Square2D ==
  FC(<< Geom("Polygon", << << <<0, 0>>, <<4, 0>>, <<4, 4>>, <<0, 4>>, <<0, 0>> >> >>) >>,
     NULL)

\* The 3D polygon of build_test.md.
Polygon3D ==
  FC(<< Geom("Polygon",
             << << <<0, 0, 0>>, <<10, 0, 0>>, <<10, 10, 5>>, <<0, 10, 5>>,
                   <<0, 0, 0>> >> >>) >>, NULL)

\* A Polygon without any ring: reading its exterior ring is a TypeError.
NoRingPolygon == FC(<< Geom("Polygon", << >>) >>, NULL)

ViewerInputs ==
  { <<NULL, defaultOptions>>, <<Square2D, defaultOptions>>,
    <<Polygon3D, defaultOptions>>, <<NoRingPolygon, defaultOptions>> }

\* The conversion of each input.
converted ==
  [in \in ViewerInputs |->
     IF in[1] = NULL THEN [threw |-> FALSE] ELSE geojsonToThree(in[1], in[2])]

(***************************************************************************)
(* loadGeoJSON.                                                            *)
(***************************************************************************)
\* The scene, the heap and the resources once the outgoing content is removed
\* and disposed and the grid helpers are removed.  What is removed is not
\* referenced any more: its objects leave the heap, and of its geometries and
\* materials only the dispose() count is kept.
released(res, ids) ==
  [id \in DOMAIN res |->
     IF id \in ids THEN [type |-> res[id].type, disposed |-> res[id].disposed]
     ELSE res[id]]

clearedKeepingContent ==
  [children |-> removeKinds(objects, sceneChildren, {"GridHelper"}),
   objects |-> objects, resources |-> resources]

cleared ==
  LET had == currentObject # null
      kept == IF had THEN SelectSeq(sceneChildren, LAMBDA id : id # currentObject)
              ELSE sceneChildren
      children == removeKinds(objects, kept, {"GridHelper"})
      gone == { id \in DOMAIN objects :
                  /\ \A i \in 1..Len(children) : children[i] # id
                  /\ \/ objects[id].kind = "GridHelper"
                     \/ had /\ id = currentObject
                     \/ had /\ \E i \in 1..Len(objects[currentObject].children) :
                                 objects[currentObject].children[i] = id }
      res1 == IF had THEN disposeObject(objects, resources, currentObject)
              ELSE resources
  IN [children |-> children,
      objects |-> [id \in DOMAIN objects \ gone |-> objects[id]],
      resources |-> released(res1, {objects[id].geometry : id \in gone}
                                   \cup {objects[id].material : id \in gone})]

gridSize(maxSize, den) == Min2(CeilDiv(maxSize * 12, den * 10), 1000000)

gridDivisions(size) == Min2(size \div 10, 1000)

\* The content object of a conversion result and what it owns, with ids from
\* base: the root, one object and one geometry per primitive, and the two
\* materials of each feature (kept only when a primitive uses them).
contentOf(result, options, base) ==
  LET prims == result.children
      n == Len(prims)
      matId(p) == base + 2 * n + 2 * p.feature
                  - (IF p.slot = "material" THEN 1 ELSE 0)
      used == {matId(prims[i]) : i \in 1..n}
      isMesh(m) == \E i \in 1..n : matId(prims[i]) = m /\ prims[i].slot = "material"
  IN [root |-> base,
      objects |->
        (base :> Object3D("Object3D", 0, 0, [i \in 1..n |-> base + i],
                          [boundingBox |-> result.boundingBox, den |-> result.den]))
        @@ [id \in {base + i : i \in 1..n} |->
              LET p == prims[id - base]
              IN Object3D(p.kind, base + n + (id - base), matId(p), << >>,
                          [build |-> p.build, box |-> p.box])],
      resources |->
        [id \in {base + n + i : i \in 1..n} |-> Geometry]
        @@ [id \in used |->
              IF isMesh(id) THEN Material(options.color, 80, TRUE)
              ELSE Material(options.wireframeColor, 100, FALSE)],
      next |-> base + 2 * n + 2 * result.nFeatures + 1]

\* The part of loadGeoJSON after a conversion that returned: attach the
\* content, add a grid scaled to the data, set up the lights again, frame the
\* camera and aim the controls at the centre of the bounding box.
maxDimensionOf(result) ==
  Max2(getSize(result.boundingBox)[1],
       Max2(getSize(result.boundingBox)[2], getSize(result.boundingBox)[3]))

gridHelper(grid, size) ==
  grid :> Object3D("GridHelper", grid + 1, grid + 2, << >>,
                   [size |-> size, divisions |-> gridDivisions(size)])

relit(c, result, content, grid) ==
  setupLights(gridHelper(grid, gridSize(maxDimensionOf(result), result.den))
              @@ content.objects @@ c.objects,
              c.children \o <<content.root, grid>>, grid + 3,
              lightDistance(maxDimensionOf(result), result.den))

attach(c, result, content, grid) ==
  /\ currentObject' = content.root
  /\ sceneChildren' = relit(c, result, content, grid).children
  /\ objects' = relit(c, result, content, grid).objects
  /\ resources' = (grid + 1 :> Geometry)
                  @@ (grid + 2 :> Material("0x888888", 100, FALSE))
                  @@ content.resources @@ c.resources
  /\ nextId' = grid + 6
  /\ camera' = [camera EXCEPT !.position =
                  computeCameraPosition(result.boundingBox, result.den)]
  /\ controls' = [controls EXCEPT !.target =
                    boxCenter(result.boundingBox, result.den)]
  /\ lastCall' = Returned("loadGeoJSON")
  /\ lastLoad' = "loaded"

\* The part of loadGeoJSON that ends without content: geojson is null, or the
\* conversion threw and the error is thrown again.
leaveEmpty(c, isNull) ==
  /\ sceneChildren' = c.children
  /\ objects' = c.objects
  /\ resources' = c.resources
  /\ currentObject' = null
  /\ lastCall' = IF isNull THEN Returned("loadGeoJSON") ELSE Thrown("loadGeoJSON")
  /\ lastLoad' = IF isNull THEN "null" ELSE "failed"
  /\ UNCHANGED <<camera, controls, nextId>>

loaded(c, result, options) ==
  attach(c, result, contentOf(result, options, nextId),
         contentOf(result, options, nextId).next)

loadGeoJSON(geojson, options) ==
  /\ loads < MaxLoads
  /\ loads' = loads + 1
  /\ IF geojson = NULL THEN leaveEmpty(cleared, TRUE)
     ELSE IF converted[<<geojson, options>>].threw THEN leaveEmpty(cleared, FALSE)
     ELSE loaded(cleared, converted[<<geojson, options>>], options)
  /\ UNCHANGED <<animationId, renderer, pendingFrames, nextFrame,
                 disposeCalls, loopRenders>>
  /\ UNCHANGED <<sfcgalVars, componentVars, pureVars>>

(***************************************************************************)
(* The other public operations of ThreeViewer.                             *)
(***************************************************************************)
resize(width, height) ==
  /\ camera' = [camera EXCEPT !.aspect = <<width, height>>]
  /\ renderer' = [renderer EXCEPT !.size = <<width, height>>]
  /\ lastCall' = Returned("resize")
  /\ UNCHANGED <<sceneChildren, currentObject, animationId,
                 controls, objects, resources, nextId, pendingFrames, nextFrame,
                 lastLoad, loads, disposeCalls, loopRenders>>
  /\ UNCHANGED <<sfcgalVars, componentVars, pureVars>>

resetCamera ==
  /\ camera' = [camera EXCEPT !.position = DefaultCameraPosition]
  /\ controls' = [controls EXCEPT !.target = <<0, 0, 0>>]
  /\ lastCall' = Returned("resetCamera")
  /\ UNCHANGED <<sceneChildren, currentObject, animationId,
                 renderer, objects, resources, nextId, pendingFrames, nextFrame,
                 lastLoad, loads, disposeCalls, loopRenders>>
  /\ UNCHANGED <<sfcgalVars, componentVars, pureVars>>

fitToObjectUnguarded ==
  /\ camera' = [camera EXCEPT !.position = computeCameraPosition(EmptyBox, 1)]
  /\ controls' = [controls EXCEPT !.target = boxCenter(EmptyBox, 1)]
  /\ lastCall' = Returned("fitToObject")
  /\ UNCHANGED <<sceneChildren, currentObject, animationId,
                 renderer, objects, resources, nextId, pendingFrames, nextFrame,
                 lastLoad, loads, disposeCalls, loopRenders>>
  /\ UNCHANGED <<sfcgalVars, componentVars, pureVars>>

\* Box3.setFromObject(currentObject): the union of the boxes of its children.
fitToObject ==
  /\ IF currentObject = null
     THEN UNCHANGED <<camera, controls>>
     ELSE LET root == objects[currentObject]
              box == expandByObjects(EmptyBox,
                       [i \in 1..Len(root.children) |->
                          objects[root.children[i]].info.box])
          IN /\ camera' = [camera EXCEPT !.position =
                             computeCameraPosition(box, root.info.den)]
             /\ controls' = [controls EXCEPT !.target = boxCenter(box, root.info.den)]
  /\ lastCall' = Returned("fitToObject")
  /\ UNCHANGED <<sceneChildren, currentObject, animationId,
                 renderer, objects, resources, nextId, pendingFrames, nextFrame,
                 lastLoad, loads, disposeCalls, loopRenders>>
  /\ UNCHANGED <<sfcgalVars, componentVars, pureVars>>

\* The children of the current content of the given kinds.
contentChildren(kinds) ==
  IF currentObject = null THEN {}
  ELSE {objects[currentObject].children[i] :
          i \in {j \in 1..Len(objects[currentObject].children) :
                   objects[objects[currentObject].children[j]].kind \in kinds}}

setWireframeVisible(visible) ==
  /\ objects' = [id \in DOMAIN objects |->
                   IF id \in contentChildren({"LineSegments", "LineLoop"})
                   THEN [objects[id] EXCEPT !.visible = visible]
                   ELSE objects[id]]
  /\ lastCall' = Returned("setWireframeVisible")
  /\ UNCHANGED <<sceneChildren, currentObject, animationId, camera,
                 controls, renderer, resources, nextId, pendingFrames, nextFrame,
                 lastLoad, loads, disposeCalls, loopRenders>>
  /\ UNCHANGED <<sfcgalVars, componentVars, pureVars>>

contentMeshMaterials == {objects[id].material : id \in contentChildren({"Mesh"})}

\* opacity is in hundredths.
setOpacity(opacity) ==
  /\ resources' = [id \in DOMAIN resources |->
                     IF id \in contentMeshMaterials
                     THEN [resources[id] EXCEPT !.opacity = opacity,
                                                !.transparent = (opacity < 100)]
                     ELSE resources[id]]
  /\ lastCall' = Returned("setOpacity")
  /\ UNCHANGED <<sceneChildren, currentObject, animationId, camera,
                 controls, renderer, objects, nextId, pendingFrames, nextFrame,
                 lastLoad, loads, disposeCalls, loopRenders>>
  /\ UNCHANGED <<sfcgalVars, componentVars, pureVars>>

setColor(color) ==
  /\ resources' = [id \in DOMAIN resources |->
                     IF id \in contentMeshMaterials
                     THEN [resources[id] EXCEPT !.color = color]
                     ELSE resources[id]]
  /\ lastCall' = Returned("setColor")
  /\ UNCHANGED <<sceneChildren, currentObject, animationId, camera,
                 controls, renderer, objects, nextId, pendingFrames, nextFrame,
                 lastLoad, loads, disposeCalls, loopRenders>>
  /\ UNCHANGED <<sfcgalVars, componentVars, pureVars>>

\* screenshot renders the scene once more and returns the image: no field of
\* the viewer changes.
screenshot ==
  /\ lastCall' = Returned("screenshot")
  /\ UNCHANGED <<sceneChildren, currentObject, animationId, camera,
                 controls, renderer, objects, resources, nextId, pendingFrames,
                 nextFrame, lastLoad, loads, disposeCalls, loopRenders>>
  /\ UNCHANGED <<sfcgalVars, componentVars, pureVars>>

(***************************************************************************)
(* dispose: cancel the pending frame, dispose the controls, dispose the    *)
(* current content, dispose every Mesh and Line scene.traverse meets,      *)
(* dispose the renderer.  No field of the viewer is reset.                 *)
(***************************************************************************)
cancelNothing(id) == pendingFrames

cancelAnimationFrame(id) == pendingFrames \ {id}

disposeViewer ==
  /\ disposeCalls < MaxDisposeCalls
  /\ disposeCalls' = disposeCalls + 1
  /\ pendingFrames' = IF animationId # null THEN cancelAnimationFrame(animationId)
                      ELSE pendingFrames
  /\ controls' = [controls EXCEPT !.disposed = @ + 1]
  /\ LET res1 == IF currentObject # null
                 THEN disposeObject(objects, resources, currentObject)
                 ELSE resources
         met == sceneMeshesAndLines(objects, sceneChildren)
     IN resources' = disposeAll(res1,
                       Flat([i \in 1..Len(met) |-> disposalsOf(objects, met[i])]))
  /\ renderer' = [renderer EXCEPT !.disposed = @ + 1]
  /\ lastCall' = Returned("dispose")
  /\ UNCHANGED <<sceneChildren, currentObject, animationId, camera,
                 objects, nextId, nextFrame, lastLoad, loads, loopRenders>>

dispose ==
  /\ disposeViewer
  /\ UNCHANGED <<sfcgalVars, componentVars, pureVars>>

ViewerNext ==
  \/ \E f \in pendingFrames : animate(f)
  \/ \E in \in ViewerInputs : loadGeoJSON(in[1], in[2])
  \/ resize(8, 3)
  \/ resetCamera
  \/ fitToObject
  \/ \E v \in BOOLEAN : setWireframeVisible(v)
  \/ setOpacity(50)
  \/ setColor("0xff0000")
  \/ screenshot
  \/ dispose


(***************************************************************************)
(* Properties of ThreeViewer.                                              *)
(***************************************************************************)
\* The ids of the content objects (the roots built by geojsonToThree) among
\* the children of the scene.
sceneContents ==
  {sceneChildren[i] : i \in {j \in 1..Len(sceneChildren) :
                               objects[sceneChildren[j]].kind = "Object3D"}}

resourcesOf(id) == {disposalsOf(objects, id)[i] : i \in 1..Len(disposalsOf(objects, id))}

\* C1: when loadGeoJSON is called on a viewer that holds content and the load
\* throws, the prior content is untouched: it is still the current object, it
\* is still a child of the scene and none of its geometries and materials has
\* been disposed.
C1_FailedLoadKeepsPriorContent ==
  [][(currentObject # null /\ lastCall'.op = "loadGeoJSON" /\ lastCall'.threw
      /\ loads' = loads + 1)
     => /\ currentObject' = currentObject
        /\ currentObject \in sceneContents'
        /\ \A r \in resourcesOf(currentObject) :
             resources'[r].disposed = resources[r].disposed]_viewerVars

\* C2: after any sequence of loadGeoJSON calls the scene holds at most one
\* content object and it is the current object, so no primitive of an earlier
\* load is left in the scene graph; a load removes the outgoing content from
\* the scene and disposes every geometry and material of it.
C2_AtMostCurrentContent ==
  /\ Cardinality(sceneContents) <= 1
  /\ sceneContents = IF currentObject = null THEN {} ELSE {currentObject}
  /\ \A i \in 1..Len(sceneChildren) :
       objects[sceneChildren[i]].kind \notin {"Mesh", "Line", "LineSegments"}

C2_OutgoingContentReleased ==
  (currentObject # null /\ loads' = loads + 1)
  => /\ currentObject \notin sceneContents'
     /\ \A r \in resourcesOf(currentObject) :
          resources'[r].disposed > resources[r].disposed

C2_ContentIsReplaced ==
  [] C2_AtMostCurrentContent /\ [][C2_OutgoingContentReleased]_viewerVars

C2_Witness ==
  /\ loads = 2
  /\ lastLoad = "loaded"
  /\ disposeCalls = 0
  /\ \E r \in DOMAIN resources : resources[r].disposed >= 1

\* C3: dispose() is terminal: once it has returned, every public call is a
\* no-op or throws a usage error; nothing is attached to the scene and no
\* resource is released again.
C3_DisposeIsTerminal ==
  [][disposeCalls >= 1
     => \/ lastCall'.threw
        \/ UNCHANGED <<sceneChildren, currentObject, objects, resources, camera,
                       controls, renderer>>]_viewerVars

\* C4: from the constructor until dispose() exactly one frame callback is
\* pending, the one animationId names; once dispose() has returned none is
\* pending and the loop never renders again.
C4_OneFramePending ==
  /\ disposeCalls = 0 => (animationId # null /\ pendingFrames = {animationId})
  /\ disposeCalls >= 1 => pendingFrames = {}

C4_RenderLoopStopsAtDispose ==
  [] C4_OneFramePending
  /\ [][disposeCalls >= 1 => loopRenders' = loopRenders]_viewerVars

C4_Witness ==
  /\ disposeCalls = 1
  /\ loopRenders >= 2
  /\ lastLoad = "loaded"
  /\ lastCall.op = "setOpacity"

\* C5: when dispose() returns, every geometry and material the viewer has
\* created (content, wireframe overlays, grid helpers, the axes helper) has
\* been disposed, whatever loads came before.
C5_DisposeReleasesEverything ==
  [][(disposeCalls = 0 /\ disposeCalls' = 1)
     => \A r \in DOMAIN resources' : resources'[r].disposed >= 1]_viewerVars

\* C6: setWireframeVisible, setOpacity, setColor and fitToObject change
\* nothing of the scene graph, the materials, the camera and the controls when
\* the viewer has no content: before the first load, after loadGeoJSON(null)
\* and after a load that failed.
C6_NoContentNoEffect ==
  [][(lastLoad \in {"none", "null", "failed"}
      /\ lastCall'.op \in {"setWireframeVisible", "setOpacity", "setColor",
                           "fitToObject"})
     => UNCHANGED <<sceneChildren, currentObject, objects, resources, camera,
                    controls>>]_viewerVars

C6_Witness ==
  /\ lastLoad = "failed"
  /\ loads = 2
  /\ lastCall.op \in {"setOpacity", "fitToObject"}
  /\ camera.position # DefaultCameraPosition

(***************************************************************************)
(* processSFCGALOperation, the SFCGAL processing command.                  *)
(*                                                                         *)
(* State: the documents of the tracker (their sources and layers), the     *)
(* tracker's current widget, the files of the contents manager, and one    *)
(* record per invocation of the command: where it is suspended (pc), what  *)
(* it captured (model, the form values, the save path) and the log of what *)
(* it has done.  Every await of the function is a point where other        *)
(* invocations and the user can act.                                       *)
(***************************************************************************)
Docs == {"a", "b"}

noWidget == "none"

\* The directory of the document's file: jgisFilePath up to its last '/',
\* and the empty string when the path has no '/' or there is no widget.
jgisDir(widget) == IF widget = "a" THEN "work" ELSE ""

Invocations == 1..MaxInvocations

processingType == "extrude"

idle ==
  [pc |-> "idle", model |-> noWidget, parseable |-> FALSE,
   outputLayerName |-> "", embedOutputLayer |-> FALSE, savePath |-> << >>,
   failure |-> "none", log |-> << >>]

did(inv, events) == [inv EXCEPT !.log = @ \o events]

\* What went wrong in the invocation, as the environment decided it.
failed(inv, failure) == [inv EXCEPT !.failure = failure]

returnSilently(inv) == [inv EXCEPT !.pc = "done"]

\* showErrorMessage, then the function returns.
showErrorMessage(inv) == [did(inv, << "dialog" >>) EXCEPT !.pc = "done"]

silentReturn(inv) == [inv EXCEPT !.pc = "done"]

SfcgalInit ==
  /\ invocations = [i \in Invocations |-> idle]
  /\ currentWidget = "a"
  /\ sources = [d \in Docs |->
                  (1 :> [type |-> "GeoJSONSource", name |-> "input",
                         parameters |-> [path |-> "input.json"]])]
  /\ layers = [d \in Docs |->
                 (2 :> [type |-> "VectorLayer", name |-> "input", visible |-> TRUE,
                        parameters |-> [source |-> 1]])]
  /\ files = [p \in {} |-> 0]
  /\ nextUuid = 3

\* The command is executed: checkSFCGALAvailability sends the GET request.
execute(i) ==
  /\ invocations[i].pc = "idle"
  /\ invocations' = [invocations EXCEPT
                       ![i] = [did(@, << "GET" >>) EXCEPT !.pc = "awaitGet"]]
  /\ UNCHANGED <<currentWidget, sources, layers, files, nextUuid>>
  /\ UNCHANGED <<viewerVars, componentVars, pureVars>>

\* The GET request settles.  A rejection is caught by
\* checkSFCGALAvailability and reads as "not available".  When the service is
\* available the function reads the selection and the current widget,
\* captures the widget's model and awaits getLayerGeoJSON.
availabilitySettled(i, status, selected) ==
  /\ invocations[i].pc = "awaitGet"
  /\ invocations' =
       [invocations EXCEPT ![i] =
          IF status # "available"
          THEN showErrorMessage(failed(did(@, << "GET settled" >>), status))
          ELSE IF ~selected \/ currentWidget = noWidget
          THEN silentReturn(did(@, << "GET settled" >>))
          ELSE [did(@, << "GET settled" >>) EXCEPT !.pc = "awaitGeoJSON",
                                                   !.model = currentWidget]]
  /\ UNCHANGED <<currentWidget, sources, layers, files, nextUuid>>
  /\ UNCHANGED <<viewerVars, componentVars, pureVars>>

\* getLayerGeoJSON settles with a string (that JSON.parse accepts or not) or
\* with nothing; with a string the parameter form is opened.
layerGeoJSONSettled(i, geojsonString) ==
  /\ invocations[i].pc = "awaitGeoJSON"
  /\ invocations' =
       [invocations EXCEPT ![i] =
          IF geojsonString = "none" THEN silentReturn(@)
          ELSE [did(@, << "form opened" >>) EXCEPT
                  !.pc = "form", !.parseable = (geojsonString = "parseable")]]
  /\ UNCHANGED <<currentWidget, sources, layers, files, nextUuid>>
  /\ UNCHANGED <<viewerVars, componentVars, pureVars>>

executeSFCGALProcessingTwice(inv) ==
  [did(inv, << "POST", "POST" >>) EXCEPT !.pc = "awaitPost"]

\* The POST request of executeSFCGALProcessing.
executeSFCGALProcessing(inv) == [did(inv, << "POST" >>) EXCEPT !.pc = "awaitPost"]

\* The form calls syncData(props): the promise resolves.  Without values the
\* function returns; otherwise JSON.parse of the layer's GeoJSON either throws
\* into the catch block or the POST request is sent.
syncData(i, props) ==
  /\ invocations[i].pc = "form"
  /\ invocations' =
       [invocations EXCEPT ![i] =
          IF props = NULL THEN silentReturn(did(@, << "form result" >>))
          ELSE IF ~@.parseable
          THEN showErrorMessage(failed(did(@, << "form result" >>), "parse"))
          ELSE executeSFCGALProcessing(
                 [did(@, << "form result" >>) EXCEPT
                    !.outputLayerName = props.outputLayerName,
                    !.embedOutputLayer = props.embedOutputLayer])]
  /\ UNCHANGED <<currentWidget, sources, layers, files, nextUuid>>
  /\ UNCHANGED <<viewerVars, componentVars, pureVars>>

\* The user closes the form without submitting it: syncData is never called
\* and the promise the function awaits is never resolved.
closeForm(i) ==
  /\ invocations[i].pc = "form"
  /\ invocations' = [invocations EXCEPT ![i].pc = "form closed"]
  /\ UNCHANGED <<currentWidget, sources, layers, files, nextUuid>>
  /\ UNCHANGED <<viewerVars, componentVars, pureVars>>

(***************************************************************************)
(* Adding the result to the document.                                      *)
(***************************************************************************)
uuid4Reused == nextUuid - 2

\* UUID.uuid4(): an identifier no source and no layer has yet.
uuid4 == nextUuid

addSource(srcs, doc, id, sourceModel) ==
  [srcs EXCEPT ![doc] = (id :> sourceModel) @@ @]

addLayer(lyrs, doc, id, layerModel) ==
  [lyrs EXCEPT ![doc] = (id :> layerModel) @@ @]

layerName(inv) == <<inv.outputLayerName, "Extrude">>

outputFileName(inv) == <<inv.outputLayerName, processingType, "json">>

layerModel(inv, newSourceId) ==
  [type |-> "VectorLayer", name |-> layerName(inv), visible |-> TRUE,
   parameters |-> [source |-> newSourceId]]

addSourceOnly(i, events, sourceModel) ==
  /\ sources' = addSource(sources, invocations[i].model, uuid4, sourceModel)
  /\ layers' = layers
  /\ nextUuid' = uuid4 + 2
  /\ invocations' =
       [invocations EXCEPT
          ![i] = [did(@, events \o << "addSource" >>) EXCEPT !.pc = "done"]]

\* addSource(newSourceId, sourceModel) and addLayer(UUID.uuid4(), layerModel)
\* on the model captured at the start, in one synchronous stretch.
addResult(i, events, sourceModel) ==
  /\ sources' = addSource(sources, invocations[i].model, uuid4, sourceModel)
  /\ layers' = addLayer(layers, invocations[i].model, uuid4 + 1,
                        layerModel(invocations[i], uuid4))
  /\ nextUuid' = uuid4 + 2
  /\ invocations' =
       [invocations EXCEPT
          ![i] = [did(@, events \o << "addSource", "addLayer" >>) EXCEPT
                    !.pc = "done"]]

\* The POST request settles.  A rejection goes to the catch block.  With a
\* result and embedOutputLayer the result is added as an embedded source;
\* otherwise the file is saved first, in the directory of the tracker's
\* current widget.
processingSettled(i, ok) ==
  /\ invocations[i].pc = "awaitPost"
  /\ IF ~ok
     THEN /\ invocations' =
               [invocations EXCEPT
                  ![i] = showErrorMessage(failed(did(@, << "POST failed" >>),
                                                 "post"))]
          /\ UNCHANGED <<sources, layers, files, nextUuid>>
     ELSE IF invocations[i].embedOutputLayer
     THEN /\ addResult(i, << "POST settled" >>,
                       [type |-> "GeoJSONSource",
                        name |-> <<layerName(invocations[i]), "Source">>,
                        parameters |-> [data |-> i]])
          /\ UNCHANGED files
     ELSE /\ invocations' =
               [invocations EXCEPT ![i] =
                  [did(@, << "POST settled", "save" >>) EXCEPT
                     !.pc = "awaitSave",
                     !.savePath = <<jgisDir(currentWidget),
                                   outputFileName(invocations[i])>>]]
          /\ UNCHANGED <<sources, layers, files, nextUuid>>
  /\ UNCHANGED currentWidget
  /\ UNCHANGED <<viewerVars, componentVars, pureVars>>

\* contents.save settles: the file holds the result of this invocation, and
\* the file-backed source and its layer are added; a rejection goes to the
\* catch block.
saveSettled(i, ok) ==
  /\ invocations[i].pc = "awaitSave"
  /\ IF ok
     THEN /\ files' = (invocations[i].savePath :> i) @@ files
          /\ addResult(i, << "saved" >>,
                       [type |-> "GeoJSONSource",
                        name |-> outputFileName(invocations[i]),
                        parameters |->
                          [path |-> outputFileName(invocations[i])]])
     ELSE /\ invocations' =
               [invocations EXCEPT
                  ![i] = showErrorMessage(failed(did(@, << "save failed" >>),
                                                 "save"))]
          /\ UNCHANGED <<sources, layers, files, nextUuid>>
  /\ UNCHANGED currentWidget
  /\ UNCHANGED <<viewerVars, componentVars, pureVars>>

\* The user activates another document, or closes the current one.
setCurrentWidget(widget) ==
  /\ widget # currentWidget
  /\ currentWidget' = widget
  /\ UNCHANGED <<invocations, sources, layers, files, nextUuid>>
  /\ UNCHANGED <<viewerVars, componentVars, pureVars>>

FormValues ==
  {NULL} \cup [outputLayerName : {"input"}, embedOutputLayer : BOOLEAN]

SfcgalNext ==
  \/ \E i \in Invocations : execute(i)
  \/ \E i \in Invocations, status \in {"available", "unavailable", "rejected"},
        selected \in BOOLEAN : availabilitySettled(i, status, selected)
  \/ \E i \in Invocations, g \in {"parseable", "unparseable", "none"} :
        layerGeoJSONSettled(i, g)
  \/ \E i \in Invocations, props \in FormValues : syncData(i, props)
  \/ \E i \in Invocations : closeForm(i)
  \/ \E i \in Invocations, ok \in BOOLEAN : processingSettled(i, ok)
  \/ \E i \in Invocations, ok \in BOOLEAN : saveSettled(i, ok)
  \/ \E widget \in Docs \cup {noWidget} : setCurrentWidget(widget)

(***************************************************************************)
(* The ThreeView component.                                                *)
(***************************************************************************)
MaxRecords == 1

\* layer.parameters?.extrude, vectorParams.color: the field is there and truthy.
extruded(layer) ==
  /\ "parameters" \in DOMAIN layer
  /\ "extrude" \in DOMAIN layer.parameters
  /\ layer.parameters.extrude

noLayer == ""

RECURSIVE firstExtruded(_)
firstExtruded(entries) ==
  IF entries = << >> THEN << >>
  ELSE IF extruded(Head(entries).layer) THEN << Head(entries) >>
  ELSE firstExtruded(Tail(entries))

anyFirstLayerId(entries) == IF entries = << >> THEN noLayer ELSE entries[1].id

\* The loop of _onLayersChanged over Object.entries(getLayers()): the id of
\* the first layer whose parameters carry a truthy extrude.
layer3DId(entries) ==
  IF firstExtruded(entries) = << >> THEN noLayer ELSE firstExtruded(entries)[1].id

\* layers.find(l => l.parameters?.extrude), undefined when there is none.
layer3D(entries) ==
  IF firstExtruded(entries) = << >> THEN NULL ELSE firstExtruded(entries)[1].layer

\* new THREE.Color(color).getHex() for the colours in use.
getHex(color) ==
  CASE color = "#0000ff" -> "0x0000ff"
    [] color = "blue" -> "0x0000ff"
    [] color = "#ff0000" -> "0xff0000"
    [] OTHER -> "0xffffff"

\* What ThreeViewer holds that the style operations read and write.
Styled(objs, res, cur, calls) ==
  [objects |-> objs, resources |-> res, currentObject |-> cur, calls |-> calls]

contentChildrenOf(v, kinds) ==
  IF v.currentObject = null THEN {}
  ELSE {v.objects[v.currentObject].children[i] :
          i \in {j \in 1..Len(v.objects[v.currentObject].children) :
                   v.objects[v.objects[v.currentObject].children[j]].kind \in kinds}}

\* viewer.setWireframeVisible(visible) on v.
wireframeVisibleSet(v, visible) ==
  [v EXCEPT
     !.objects = [id \in DOMAIN v.objects |->
                    IF id \in contentChildrenOf(v, {"LineSegments", "LineLoop"})
                    THEN [v.objects[id] EXCEPT !.visible = visible]
                    ELSE v.objects[id]],
     !.calls = @ \o << "setWireframeVisible" >>]

meshMaterialsOf(v) == {v.objects[id].material : id \in contentChildrenOf(v, {"Mesh"})}

\* viewer.setOpacity(opacity) on v.
opacitySet(v, opacity) ==
  [v EXCEPT
     !.resources = [id \in DOMAIN v.resources |->
                      IF id \in meshMaterialsOf(v)
                      THEN [v.resources[id] EXCEPT !.opacity = opacity,
                                                   !.transparent = (opacity < 100)]
                      ELSE v.resources[id]],
     !.calls = @ \o << "setOpacity" >>]

\* viewer.setColor(color) on v.
colorSet(v, color) ==
  [v EXCEPT
     !.resources = [id \in DOMAIN v.resources |->
                      IF id \in meshMaterialsOf(v)
                      THEN [v.resources[id] EXCEPT !.color = color]
                      ELSE v.resources[id]],
     !.calls = @ \o << "setColor" >>]

visibleApplied(v, layer) ==
  IF "visible" \in DOMAIN layer THEN wireframeVisibleSet(v, layer.visible) ELSE v

opacityApplied(v, layer) ==
  IF "opacity" \in DOMAIN layer.parameters
  THEN opacitySet(v, layer.parameters.opacity) ELSE v

colorApplied(v, layer) ==
  IF "color" \in DOMAIN layer.parameters /\ layer.parameters.color # ""
  THEN colorSet(v, getHex(layer.parameters.color)) ELSE v

\* updateObjectProperties(layer) with a viewer: nothing without a layer, else
\* the visibility, the opacity and the colour the layer carries, in that order.
updateObjectProperties(v, layer) ==
  IF layer = NULL THEN v
  ELSE colorApplied(opacityApplied(visibleApplied(v, layer), layer), layer)

\* change.layerChange?.forEach: each record whose id is the target is applied.
RECURSIVE applyRecords(_, _, _)
applyRecords(v, records, target) ==
  IF records = << >> THEN v
  ELSE applyRecords(IF Head(records).id = target
                    THEN updateObjectProperties(v, Head(records).newValue)
                    ELSE v,
                    Tail(records), target)

ComponentInit ==
  /\ viewer = null
  /\ viewProps = [geojson |-> NULL, conversionOptions |-> defaultOptions]
  /\ viewState = [isLoading |-> FALSE, error |-> FALSE]
  /\ gisLayers = << >>
  /\ connected = FALSE
  /\ lastEvent = [handler |-> "constructor"]

\* What viewer.loadGeoJSON(geojson, options) leaves in the viewer.
emptied(c, isNull) ==
  [threw |-> ~isNull, currentObject |-> null, sceneChildren |-> c.children,
   objects |-> c.objects, resources |-> c.resources, nextId |-> nextId,
   camera |-> camera, controls |-> controls,
   lastLoad |-> IF isNull THEN "null" ELSE "failed"]

attached(c, result, content, grid) ==
  [threw |-> FALSE, currentObject |-> content.root,
   sceneChildren |-> relit(c, result, content, grid).children,
   objects |-> relit(c, result, content, grid).objects,
   resources |-> (grid + 1 :> Geometry)
                 @@ (grid + 2 :> Material("0x888888", 100, FALSE))
                 @@ content.resources @@ c.resources,
   nextId |-> grid + 6,
   camera |-> [camera EXCEPT !.position =
                 computeCameraPosition(result.boundingBox, result.den)],
   controls |-> [controls EXCEPT !.target =
                   boxCenter(result.boundingBox, result.den)],
   lastLoad |-> "loaded"]

afterConversion(c, result, options) ==
  IF result.threw THEN emptied(c, FALSE)
  ELSE attached(c, result, contentOf(result, options, nextId),
                contentOf(result, options, nextId).next)

afterLoad(geojson, options) ==
  IF geojson = NULL THEN emptied(cleared, TRUE)
  ELSE afterConversion(cleared, converted[<<geojson, options>>], options)

lastOf(calls, op) == IF calls = << >> THEN op ELSE calls[Len(calls)]

\* The viewer takes the state l of a load and then the style s applied to it.
viewerBecomes(l, s) ==
  /\ currentObject' = l.currentObject
  /\ sceneChildren' = l.sceneChildren
  /\ objects' = s.objects
  /\ resources' = s.resources
  /\ nextId' = l.nextId
  /\ camera' = l.camera
  /\ controls' = l.controls
  /\ lastLoad' = l.lastLoad
  /\ loads' = loads + 1
  /\ lastCall' = IF l.threw THEN Thrown("loadGeoJSON")
                 ELSE Returned(lastOf(s.calls, "loadGeoJSON"))
  /\ UNCHANGED <<animationId, renderer, pendingFrames, nextFrame,
                 disposeCalls, loopRenders>>

\* The try block of loadGeometry and its catch, given what the load left.
loadedAndStyled(l, entries) ==
  /\ viewState' = [isLoading |-> FALSE, error |-> l.threw]
  /\ viewerBecomes(l, IF l.threw
                      THEN Styled(l.objects, l.resources, null, << >>)
                      ELSE updateObjectProperties(
                             Styled(l.objects, l.resources, l.currentObject, << >>),
                             layer3D(entries)))

\* loadGeometry(geojson): nothing without a viewer or without data; else
\* loadGeoJSON, then updateObjectProperties with the first extruded layer;
\* a load that throws is caught and recorded in this.state.error.
loadGeometry(hasViewer, geojson, options, entries) ==
  IF ~hasViewer \/ geojson = NULL
  THEN UNCHANGED <<viewerVars, viewState>>
  ELSE /\ loads < MaxLoads
       /\ loadedAndStyled(afterLoad(geojson, options), entries)

\* componentDidMount: with a canvas in a parent element the viewer is created
\* (the viewer variables hold what its constructor leaves) and the geojson
\* prop, if any, is loaded; the handler is connected in every case.
componentDidMount(p, hasParent, entries) ==
  /\ lastEvent.handler = "constructor"
  /\ viewProps' = p
  /\ gisLayers' = entries
  /\ viewer' = IF hasParent THEN 1 ELSE null
  /\ loadGeometry(hasParent, p.geojson, p.conversionOptions, entries)
  /\ connected' = TRUE
  /\ lastEvent' = [handler |-> "componentDidMount"]
  /\ UNCHANGED <<sfcgalVars, pureVars>>

\* componentDidUpdate(prevProps) after the props became p.
componentDidUpdate(p) ==
  /\ connected
  /\ viewProps' = p
  /\ IF viewer # null /\ viewProps.geojson # p.geojson
     THEN loadGeometry(TRUE, p.geojson, p.conversionOptions, gisLayers)
     ELSE UNCHANGED <<viewerVars, viewState>>
  /\ lastEvent' = [handler |-> "componentDidUpdate"]
  /\ UNCHANGED <<viewer, gisLayers, connected, sfcgalVars, pureVars>>

\* sharedLayersChanged fires with the layers now in the model and a change.
onLayersChanged(entries, change) ==
  /\ connected
  /\ gisLayers' = entries
  /\ lastEvent' = [handler |-> "_onLayersChanged", change |-> change]
  /\ IF viewer = null \/ viewProps.geojson = NULL \/ layer3DId(entries) = noLayer
     THEN UNCHANGED viewerVars
     ELSE LET s == applyRecords(Styled(objects, resources, currentObject, << >>),
                                change, layer3DId(entries))
          IN /\ objects' = s.objects
             /\ resources' = s.resources
             /\ lastCall' = IF s.calls = << >> THEN lastCall
                            ELSE Returned(s.calls[Len(s.calls)])
             /\ UNCHANGED <<sceneChildren, currentObject, animationId, camera,
                            controls, renderer, nextId, pendingFrames, nextFrame,
                            lastLoad, loads, disposeCalls, loopRenders>>
  /\ UNCHANGED <<viewer, viewProps, viewState, connected, sfcgalVars, pureVars>>

\* componentWillUnmount: dispose the viewer, forget it, disconnect.
componentWillUnmount ==
  /\ connected
  /\ IF viewer # null THEN disposeViewer ELSE UNCHANGED viewerVars
  /\ viewer' = null
  /\ connected' = FALSE
  /\ lastEvent' = [handler |-> "componentWillUnmount"]
  /\ UNCHANGED <<viewProps, viewState, gisLayers, sfcgalVars, pureVars>>

plainLayer == [type |-> "VectorLayer", visible |-> TRUE, parameters |-> [opacity |-> 100]]

bareLayer == [type |-> "VectorLayer", parameters |-> [extrude |-> TRUE]]

styledLayer(visible, color) ==
  [type |-> "VectorLayer", visible |-> visible,
   parameters |-> [extrude |-> TRUE, opacity |-> 30, color |-> color]]

entry(id, layer) == [id |-> id, layer |-> layer]

LayerEntries ==
  { << >>,
    << entry("a", plainLayer) >>,
    << entry("a", plainLayer), entry("b", styledLayer(FALSE, "#0000ff")) >>,
    << entry("a", bareLayer), entry("b", styledLayer(FALSE, "#0000ff")) >>,
    << entry("b", styledLayer(FALSE, "#0000ff")) >> }

ChangeRecords ==
  [id : {"a", "b"},
   newValue : {NULL, styledLayer(FALSE, "#0000ff"), styledLayer(TRUE, "#ff0000")}]

Changes == UNION {[1..n -> ChangeRecords] : n \in 0..MaxRecords}

PropsValues ==
  [geojson : {NULL, Square2D, Polygon3D, NoRingPolygon},
   conversionOptions : {defaultOptions}]

ComponentNext ==
  \/ \E p \in PropsValues, hasParent \in BOOLEAN, entries \in LayerEntries :
       componentDidMount(p, hasParent, entries)
  \/ \E p \in PropsValues : componentDidUpdate(p)
  \/ \E entries \in LayerEntries, change \in Changes : onLayersChanged(entries, change)
  \/ componentWillUnmount

(***************************************************************************)
(* geojsonToThree and computeCameraPosition called on their own.           *)
(***************************************************************************)
MaxFeatures == 2

MaxExtent == 3

PureInit ==
  /\ conversion = [called |-> FALSE]
  /\ framing = [called |-> FALSE]

CRS(name) == [urn |-> FALSE, authority |-> "", code |-> "", name |-> name]

URN(authority, code) == [urn |-> TRUE, authority |-> authority, code |-> code, name |-> ""]

CRSValues ==
  {NULL, CRS("EPSG:4326"), URN("EPSG", "4326"), URN("EPSG", "3946"),
   CRS("EPSG:999999"), CRS("ESRI:53009")}

ring2D == << <<0, 0>>, <<4, 0>>, <<4, 4>>, <<0, 4>>, <<0, 0>> >>

ring3D == << <<0, 0, 0>>, <<10, 0, 0>>, <<10, 10, 5>>, <<0, 10, 5>>, <<0, 0, 0>> >>

\* An interior ring of ring3D, a closed ring of two distinct points and a ring
\* whose last point is not its first.
hole3D == << <<2, 2, 1>>, <<4, 2, 1>>, <<4, 4, 2>>, <<2, 2, 1>> >>

thinRing == << <<0, 0, 1>>, <<6, 0, 1>>, <<0, 0, 1>> >>

openRing == << <<0, 0, 0>>, <<6, 0, 0>>, <<6, 6, 3>>, <<0, 6, 3>> >>

triangleA == << <<0, 0, 0>>, <<4, 0, 0>>, <<0, 4, 2>>, <<0, 0, 0>> >>

triangleB == << <<4, 0, 0>>, <<4, 4, 2>>, <<0, 4, 2>>, <<4, 0, 0>> >>

GeometrySamples ==
  { NULL,
    Geom("Point", <<1, 2>>),
    Geom("Point", <<1, 2, 3>>),
    Geom("MultiPoint", << <<0, 0>>, <<2, 6>> >>),
    Geom("LineString", << <<0, 0, 2>>, <<4, 2>> >>),
    Geom("MultiLineString", << << <<0, 0>>, <<4, 2>> >>, << <<1, 1>>, <<3, 5>> >> >>),
    Geom("Polygon", << ring2D >>),
    Geom("Polygon", << ring3D >>),
    Geom("Polygon", << ring3D, hole3D >>),
    Geom("Polygon", << ring2D, hole3D >>),
    Geom("Polygon", << thinRing >>),
    Geom("Polygon", << openRing >>),
    Geom("MultiPolygon", << << ring2D >>, << ring3D >> >>),
    Geom("MultiPolygon", << << openRing, hole3D >>, << thinRing >> >>),
    Geom("TIN", << << triangleA >>, << triangleB >> >>),
    Geom("PolyhedralSurface", << << triangleB >>, << ring3D >> >>),
    Geom("GeometryCollection", << >>),
    Geom("Polygon", << >>) }

ConversionOptions ==
  {[defaultOptions EXCEPT !.extrude = e, !.wireframe = w] : e, w \in BOOLEAN}

\* The geometries of the features that follow the first one.
Companions ==
  { Geom("Point", <<1, 2>>),
    Geom("Polygon", << ring3D >>),
    Geom("GeometryCollection", << >>) }

ConversionInputs ==
  {FC(<< g >> \o rest, crs) :
     g \in GeometrySamples,
     rest \in UNION {[1..n -> Companions] : n \in 0..(MaxFeatures - 1)},
     crs \in CRSValues}

\* geojsonToThree(geojson, options) is called.
convert(geojson, options) ==
  /\ ~conversion.called
  /\ conversion' = [called |-> TRUE, geojson |-> geojson, options |-> options,
                    result |-> geojsonToThree(geojson, options)]
  /\ UNCHANGED <<viewerVars, sfcgalVars, componentVars, framing>>

ConversionNext ==
  \E geojson \in ConversionInputs, options \in ConversionOptions :
    convert(geojson, options)

\* The boxes with the given centre and half extents, and the empty box.
Box(center, half) ==
  [empty |-> FALSE, min |-> [k \in 1..3 |-> center[k] - half[k]],
   max |-> [k \in 1..3 |-> center[k] + half[k]]]

Boxes ==
  {EmptyBox} \cup
  {Box(center, half) :
     center \in {<<0, 0, 0>>, <<1, 2, 3>>},
     half \in [1..3 -> 0..MaxExtent]}

\* computeCameraPosition(boundingBox, fov, aspect) is called.
frame(boundingBox, fov, aspect) ==
  /\ ~framing.called
  /\ framing' = [called |-> TRUE, boundingBox |-> boundingBox, fov |-> fov,
                 aspect |-> aspect,
                 position |-> computeCameraPositionWith(boundingBox, 1, fov, aspect)]
  /\ UNCHANGED <<viewerVars, sfcgalVars, componentVars, conversion>>

FramingNext ==
  \E boundingBox \in Boxes, fov \in {50, 90}, aspect \in {<<1, 1>>, <<4, 3>>, <<1, 2>>} :
    frame(boundingBox, fov, aspect)

(***************************************************************************)
(* The specifications: the viewer with the command layer at rest, and the  *)
(* command layer with the viewer at rest.                                  *)
(***************************************************************************)
Init ==
  /\ ViewerInit
  /\ SfcgalInit
  /\ ComponentInit
  /\ PureInit

SpecViewer == Init /\ [][ViewerNext]_vars

SpecSfcgal == Init /\ [][SfcgalNext]_vars

\* The requests of an invocation settle (the transport has a timeout), the
\* contents manager answers, and the user ends up acting on an open form, by
\* submitting it or by closing it.
SfcgalFairness ==
  \A i \in Invocations :
    /\ WF_vars(\E status \in {"available", "unavailable", "rejected"},
                  selected \in BOOLEAN : availabilitySettled(i, status, selected))
    /\ WF_vars(\E g \in {"parseable", "unparseable", "none"} :
                  layerGeoJSONSettled(i, g))
    /\ WF_vars((\E props \in FormValues : syncData(i, props)) \/ closeForm(i))
    /\ WF_vars(\E ok \in BOOLEAN : processingSettled(i, ok))
    /\ WF_vars(\E ok \in BOOLEAN : saveSettled(i, ok))

SpecSfcgalLive == Init /\ [][SfcgalNext]_vars /\ SfcgalFairness

SpecComponent == Init /\ [][ComponentNext]_vars

SpecConversion == Init /\ [][ConversionNext]_vars

SpecFraming == Init /\ [][FramingNext]_vars

(***************************************************************************)
(* Properties of the SFCGAL command.                                       *)
(***************************************************************************)
Positions(log, event) == {k \in 1..Len(log) : log[k] = event}

Has(log, event) == Positions(log, event) # {}

\* Every event b of the log has an event a before it.
Before(log, a, b) ==
  \A k \in Positions(log, b) : \E j \in Positions(log, a) : j < k

initialSources == {1}

initialLayers == {2}

addedSources(d) == DOMAIN sources[d] \ initialSources

addedLayers(d) == DOMAIN layers[d] \ initialLayers

usedIds == UNION {DOMAIN sources[d] \cup DOMAIN layers[d] : d \in Docs}

\* C7: an invocation in which something failed (the service is unavailable,
\* the availability request is rejected, the layer's GeoJSON does not parse,
\* the POST is rejected, the file cannot be saved) has shown an error dialog
\* and has added no source and no layer; the step in which it fails leaves
\* the sources and the layers of every document as they were.
C7_FailureShowsDialog ==
  \A i \in Invocations :
    invocations[i].failure # "none" =>
      /\ Has(invocations[i].log, "dialog")
      /\ ~Has(invocations[i].log, "addSource")
      /\ ~Has(invocations[i].log, "addLayer")

C7_FailureAddsNothing ==
  (\E i \in Invocations : invocations'[i].failure # invocations[i].failure)
    => UNCHANGED <<sources, layers>>

C7_FailureIsReportedAndAddsNothing ==
  [] C7_FailureShowsDialog /\ [][C7_FailureAddsNothing]_vars

C7_Witness ==
  /\ {invocations[i].failure : i \in Invocations} = {"post", "save"}
  /\ \A d \in Docs : addedSources(d) = {} /\ addedLayers(d) = {}

\* C8: in every state (the command only yields between steps) each added
\* source of a document is referenced by exactly one added layer of that
\* document, and each added layer references a source of the document.
C8_AddedSourcesAndLayersArePaired ==
  \A d \in Docs :
    /\ \A s \in addedSources(d) :
         Cardinality({l \in addedLayers(d) :
                        layers[d][l].parameters.source = s}) = 1
    /\ \A l \in addedLayers(d) :
         layers[d][l].parameters.source \in DOMAIN sources[d]

C8_Witness ==
  \E i, j \in Invocations :
    /\ invocations[i].pc = "awaitSave"
    /\ invocations[j].embedOutputLayer
    /\ Has(invocations[j].log, "addLayer")
    /\ invocations[i].model = invocations[j].model

\* C9: in the log of every invocation the GET has settled before the form
\* opens, the form result precedes the POST, the POST has settled before
\* addSource and addLayer, and there is at most one GET and at most one POST.
C9_StepsAreOrdered ==
  \A i \in Invocations :
    LET log == invocations[i].log
    IN /\ Before(log, "GET", "GET settled")
       /\ Before(log, "GET settled", "form opened")
       /\ Before(log, "form result", "POST")
       /\ Before(log, "POST settled", "addSource")
       /\ Before(log, "POST settled", "addLayer")
       /\ Cardinality(Positions(log, "GET")) <= 1
       /\ Cardinality(Positions(log, "POST")) <= 1

C9_Witness ==
  \E i, j \in Invocations :
    /\ Has(invocations[i].log, "saved")
    /\ Has(invocations[i].log, "addLayer")
    /\ invocations[j].failure = "post"
    /\ invocations[j].pc = "done"

\* C10: no step removes or changes a source or a layer of a document, and
\* the sources and layers a step adds have identifiers that no source and no
\* layer of any document had before.
C10_Additive ==
  \A d \in Docs :
    /\ \A s \in DOMAIN sources[d] :
         s \in DOMAIN sources'[d] /\ sources'[d][s] = sources[d][s]
    /\ \A l \in DOMAIN layers[d] :
         l \in DOMAIN layers'[d] /\ layers'[d][l] = layers[d][l]
    /\ sources'[d] # sources[d] =>
         Cardinality((DOMAIN sources'[d] \ DOMAIN sources[d]) \ usedIds) = 1
    /\ layers'[d] # layers[d] =>
         Cardinality((DOMAIN layers'[d] \ DOMAIN layers[d]) \ usedIds) = 1

C10_AdditiveOnly == [][C10_Additive]_vars

C10_Witness ==
  /\ Cardinality(addedSources("a")) = 2
  /\ Cardinality(addedLayers("a")) = 2
  /\ \E i \in Invocations : Len(invocations[i].savePath) > 0

(***************************************************************************)
(* Properties of the ThreeView component.                                  *)
(***************************************************************************)
\* The ids of the first entry, in order, whose layer has a truthy extrude.
displayedIn(entries) ==
  {entries[k].id :
     k \in {j \in DOMAIN entries :
              /\ extruded(entries[j].layer)
              /\ \A i \in 1..(j - 1) : ~extruded(entries[i].layer)}}

\* The indices of the records of a change that carry a value for such a layer.
reaching(change, entries) ==
  {k \in DOMAIN change :
     change[k].id \in displayedIn(entries) /\ change[k].newValue # NULL}

lastReaching(change, entries) ==
  change[CHOOSE k \in reaching(change, entries) :
           \A j \in reaching(change, entries) : j <= k].newValue

wireframesAfter ==
  {id \in DOMAIN objects' :
     /\ currentObject' # null
     /\ \E i \in DOMAIN objects'[currentObject'].children :
          objects'[currentObject'].children[i] = id
     /\ objects'[id].kind \in {"LineSegments", "LineLoop"}}

meshMaterialsAfter ==
  {objects'[id].material :
     id \in {m \in DOMAIN objects' :
               /\ currentObject' # null
               /\ \E i \in DOMAIN objects'[currentObject'].children :
                    objects'[currentObject'].children[i] = m
               /\ objects'[m].kind = "Mesh"}}

\* C11: a layer-change event never loads; it leaves the viewer unchanged when
\* there is no viewer, when the geojson prop is null, when no layer has an
\* extrude flag, or when no record of the change is for the first extruded
\* layer; otherwise the last such record sets the visibility of the
\* wireframes and the opacity and the colour of the mesh materials.
C11_LayerChange ==
  lastEvent'.handler = "_onLayersChanged" =>
    /\ UNCHANGED <<loads, lastLoad, sceneChildren, currentObject, camera, controls>>
    /\ IF \/ viewer = null
          \/ viewProps.geojson = NULL
          \/ reaching(lastEvent'.change, gisLayers') = {}
       THEN UNCHANGED viewerVars
       ELSE /\ \A id \in wireframesAfter :
                 objects'[id].visible =
                   lastReaching(lastEvent'.change, gisLayers').visible
            /\ \A m \in meshMaterialsAfter :
                 /\ resources'[m].opacity =
                      lastReaching(lastEvent'.change, gisLayers').parameters.opacity
                 /\ resources'[m].color =
                      getHex(lastReaching(lastEvent'.change, gisLayers').parameters.color)

C11_OnlyTheDisplayedLayerReachesTheViewer == [][C11_LayerChange]_vars

C11_Witness ==
  /\ lastEvent.handler = "_onLayersChanged"
  /\ Len(gisLayers) = 2
  /\ ~extruded(gisLayers[1].layer)
  /\ currentObject # null
  /\ \E m \in DOMAIN resources :
       resources[m].type = "material" /\ resources[m].color = "0xff0000"
  /\ \E id \in DOMAIN objects :
       objects[id].kind = "LineSegments" /\ objects[id].visible

\* C12: when componentDidUpdate sees a geojson prop different from the
\* previous one, loadGeoJSON is called with it: afterwards the viewer has no
\* content if the prop is null, and the conversion of the prop if it converts.
C12_PropChange ==
  ( /\ lastEvent'.handler = "componentDidUpdate"
    /\ viewer # null
    /\ viewProps'.geojson # viewProps.geojson )
  => /\ loads' = loads + 1
     /\ viewProps'.geojson = NULL => currentObject' = null
     /\ ( /\ viewProps'.geojson # NULL
          /\ ~geojsonToThree(viewProps'.geojson,
                             viewProps'.conversionOptions).threw )
        => /\ currentObject' # null
           /\ objects'[currentObject'].info.boundingBox =
                geojsonToThree(viewProps'.geojson,
                               viewProps'.conversionOptions).boundingBox

C12_PropChangeReloads == [][C12_PropChange]_vars

(***************************************************************************)
(* Properties of geojsonToThree called on its own.                         *)
(***************************************************************************)
\* The nesting depth of the coordinate tuples under each geometry type.
tupleDepth(type) ==
  CASE type = "Point" -> 0
    [] type \in {"MultiPoint", "LineString"} -> 1
    [] type \in {"MultiLineString", "Polygon"} -> 2
    [] type \in {"MultiPolygon", "TIN", "PolyhedralSurface"} -> 3
    [] OTHER -> 0 - 1

\* Every coordinate tuple at the given depth, moved to the display CRS.
RECURSIVE tuplesReprojected(_, _, _)
tuplesReprojected(coords, depth, code) ==
  IF depth = 0 THEN transformCoordinates(coords, code)
  ELSE [i \in 1..Len(coords) |-> tuplesReprojected(coords[i], depth - 1, code)]

\* Every coordinate tuple at the given depth, in order.
RECURSIVE tuplesOf(_, _)
tuplesOf(coords, depth) ==
  IF depth = 0 THEN << coords >>
  ELSE Flat([i \in 1..Len(coords) |-> tuplesOf(coords[i], depth - 1)])

featuresReprojected(features, code) ==
  [i \in 1..Len(features) |->
     IF features[i].geometry = NULL \/ tupleDepth(features[i].geometry.type) < 0
     THEN features[i]
     ELSE [geometry |->
             [features[i].geometry EXCEPT
                !.coordinates = tuplesReprojected(@, tupleDepth(features[i].geometry.type),
                                                  code)]]]

tuplesOfFeatures(features) ==
  Flat([i \in 1..Len(features) |->
          IF features[i].geometry = NULL \/ tupleDepth(features[i].geometry.type) < 0
          THEN << >>
          ELSE tuplesOf(features[i].geometry.coordinates,
                        tupleDepth(features[i].geometry.type))])

\* A source CRS is declared, its normalised code is not the display CRS and
\* no coordinate of the data has a Z.
reprojectionExpected(geojson) ==
  /\ geojson.crs # NULL
  /\ getProjectionCode(geojson) # "EPSG:4326"
  /\ ~has3DCoordinates(geojson.features)

\* The features the primitives are expected to be built from.
expectedFeatures(geojson) ==
  IF reprojectionExpected(geojson)
  THEN featuresReprojected(geojson.features, getProjectionCode(geojson))
  ELSE geojson.features

\* The collection of the given features that declares no CRS.
undeclared(features) == [features |-> features, crs |-> NULL]

\* C13: geojsonToThree reprojects exactly when a source CRS is declared, its
\* normalised code differs from EPSG:4326 and the data has no Z: the
\* primitives are those of the features with every coordinate tuple moved
\* to the display CRS in that case and those of the source features
\* otherwise, and the centroid is the mean of those same tuples.
C13_ReprojectsIffDeclaredDifferentAndNot3D ==
  conversion.called =>
    LET expected == expectedFeatures(conversion.geojson)
        plain == geojsonToThree(undeclared(expected), conversion.options)
    IN /\ conversion.result.threw = plain.threw
       /\ ~conversion.result.threw =>
            /\ conversion.result.shouldTransform
                 = reprojectionExpected(conversion.geojson)
            /\ conversion.result.children = plain.children
            /\ conversion.result.centroid = centroidOf(tuplesOfFeatures(expected))

\* A reprojection that moved the primitives has happened.
C13_Witness ==
  /\ conversion.called
  /\ ~conversion.result.threw
  /\ conversion.geojson.crs = URN("EPSG", "3946")
  /\ conversion.result.shouldTransform
  /\ conversion.result.children
       # geojsonToThree(undeclared(conversion.geojson.features),
                        conversion.options).children

\* The geometry the primitives of feature i are built from, and its
\* coordinate tuples minus the centroid (multiplied by the denominator).
sourceGeometry(i) == expectedFeatures(conversion.geojson)[i].geometry

expectedCentroid == centroidOf(tuplesOfFeatures(expectedFeatures(conversion.geojson)))

centeredTuples(i) ==
  LET tuples == tuplesOf(sourceGeometry(i).coordinates,
                         tupleDepth(sourceGeometry(i).type))
  IN [k \in 1..Len(tuples) |-> centered(tuples[k], expectedCentroid)]

InSeq(x, seq) == \E k \in 1..Len(seq) : seq[k] = x

\* The primitives of the result that are not edge outlines.
builtPrims ==
  {k \in 1..Len(conversion.result.children) :
     conversion.result.children[k].build # "edges"}

\* C14: every vertex and every marker position geojsonToThree emits is a
\* coordinate tuple of the feature's geometry minus the centroid in X, Y and
\* Z, a missing Z counting as 0; a position buffer holds those components
\* as numbers.
C14_EveryVertexIsInputMinusCentroid ==
  (conversion.called /\ ~conversion.result.threw) =>
    \A k \in builtPrims :
      LET prim == conversion.result.children[k]
          tuples == centeredTuples(prim.feature)
      IN CASE prim.build = "sphere" -> InSeq(prim.position, tuples)
           [] prim.build = "positions" ->
                \A v \in 1..Len(prim.vertices) :
                  /\ ~prim.vertices[v].nan
                  /\ \E t \in 1..Len(tuples), j \in 1..3 :
                       prim.vertices[v].value = tuples[t][j]
           [] OTHER ->
                \A v \in 1..Len(prim.vertices) : InSeq(prim.vertices[v], tuples)

\* The features whose geometry is a TIN or a PolyhedralSurface.
surfaceFeatures ==
  {i \in 1..Len(conversion.geojson.features) :
     /\ conversion.geojson.features[i].geometry # NULL
     /\ conversion.geojson.features[i].geometry.type \in {"TIN", "PolyhedralSurface"}}

primsOf(i) ==
  {k \in 1..Len(conversion.result.children) :
     conversion.result.children[k].feature = i}

\* The faces of feature i that are triangles, and the position buffer of
\* their vertices: X, Y and Z of the three corners of each face in turn,
\* minus the centroid.
triangularFaces(i) ==
  SelectSeq(sourceGeometry(i).coordinates,
            LAMBDA face : Len(face) = 1 /\ Len(face[1]) = 4 /\ face[1][1] = face[1][4])

faceVertexBuffer(i) ==
  LET faces == triangularFaces(i)
  IN [n \in 1..(9 * Len(faces)) |->
        Num(centered(faces[((n - 1) \div 9) + 1][1][(((n - 1) % 9) \div 3) + 1],
                     expectedCentroid)[((n - 1) % 3) + 1])]

\* C15: a TIN or PolyhedralSurface of k triangular faces gives exactly one
\* mesh whose position buffer holds the 3k face vertices as finite numbers,
\* each the input vertex minus the centroid, and exactly one edge outline
\* when wireframe is set (none otherwise).
C15_SurfaceIsOneFiniteCentredMesh ==
  (conversion.called /\ ~conversion.result.threw) =>
    \A i \in surfaceFeatures :
      Len(triangularFaces(i)) = Len(sourceGeometry(i).coordinates) =>
        LET meshes == {k \in primsOf(i) : conversion.result.children[k].kind = "Mesh"}
            outlines == {k \in primsOf(i) : conversion.result.children[k].build = "edges"}
        IN /\ Cardinality(meshes) = 1
           /\ \A k \in meshes :
                conversion.result.children[k].vertices = faceVertexBuffer(i)
           /\ Cardinality(outlines) = (IF conversion.options.wireframe THEN 1 ELSE 0)
           /\ primsOf(i) = meshes \cup outlines

\* The features whose geometry is a Polygon or a MultiPolygon, and the
\* number of polygons each one holds.
polygonFeatures ==
  {i \in 1..Len(conversion.geojson.features) :
     /\ conversion.geojson.features[i].geometry # NULL
     /\ conversion.geojson.features[i].geometry.type \in {"Polygon", "MultiPolygon"}}

partsOf(i) ==
  IF conversion.geojson.features[i].geometry.type = "Polygon" THEN 1
  ELSE Len(conversion.geojson.features[i].geometry.coordinates)

\* C16: every Polygon and every part of a MultiPolygon gives one mesh,
\* followed by exactly one edge outline when wireframe is set and by none
\* when it is not, whichever way the mesh is built.
C16_OneOutlinePerPolygonIffWireframe ==
  (conversion.called /\ ~conversion.result.threw) =>
    \A i \in polygonFeatures :
      LET children == conversion.result.children
          meshes == {k \in primsOf(i) : children[k].kind = "Mesh"}
          outlines == {k \in primsOf(i) : children[k].build = "edges"}
      IN /\ Cardinality(meshes) = partsOf(i)
         /\ primsOf(i) = meshes \cup outlines
         /\ IF conversion.options.wireframe
            THEN /\ Cardinality(outlines) = partsOf(i)
                 /\ \A k \in meshes : (k + 1) \in outlines
            ELSE outlines = {}

\* The features whose geometry is of a type the conversion has no case for.
unrecognisedFeatures ==
  {i \in 1..Len(conversion.geojson.features) :
     /\ conversion.geojson.features[i].geometry # NULL
     /\ tupleDepth(conversion.geojson.features[i].geometry.type) < 0}

\* The input without feature i.
withoutFeature(geojson, i) ==
  [geojson EXCEPT !.features = RemoveAt(@, i)]

\* The primitives without the index of the feature they come from.
unindexed(children) ==
  [k \in 1..Len(children) |-> [children[k] EXCEPT !.feature = 0]]

\* C17: a feature whose geometry type is not recognised gives no primitive
\* and no throw: transformGeometry returns it as it is, and the conversion
\* ends as the conversion of the collection without that feature does (same
\* throw outcome, same has3D, same centroid, same primitives).
C17_UnrecognisedTypeIsSkipped ==
  conversion.called =>
    \A i \in unrecognisedFeatures :
      LET g == conversion.geojson.features[i].geometry
          rest == withoutFeature(conversion.geojson, i)
          others == geojsonToThree(rest, conversion.options)
      IN /\ transformGeometry(g, getProjectionCode(conversion.geojson)) = g
         /\ has3DCoordinates(conversion.geojson.features)
              = has3DCoordinates(rest.features)
         /\ conversion.result.threw = others.threw
         /\ ~conversion.result.threw =>
              /\ primsOf(i) = {}
              /\ conversion.result.centroid
                   = centroidOf(tuplesOfFeatures(expectedFeatures(rest)))
              /\ unindexed(conversion.result.children) = unindexed(others.children)

\* A GeometryCollection was converted together with a feature that gave
\* primitives, under a declared source CRS.
C17_Witness ==
  /\ conversion.called
  /\ ~conversion.result.threw
  /\ unrecognisedFeatures # {}
  /\ conversion.geojson.crs = URN("EPSG", "3946")
  /\ conversion.result.shouldTransform
  /\ conversion.result.children # << >>

\* The declared code is one transformCoordinates cannot use: it is not in
\* the registry, or the projection library throws on it.
unusableCode(code) ==
  code \in {"EPSG:999999", "ESRI:53009"}

\* C18: with a source CRS that is not registered, or on which the
\* projection library throws, transformCoordinates returns every coordinate
\* as it is, and geojsonToThree ends as it does on the same features with
\* no CRS declared.
C18_UnusableCrsLeavesCoordinates ==
  (conversion.called /\ unusableCode(getProjectionCode(conversion.geojson))) =>
    LET code == getProjectionCode(conversion.geojson)
        tuples == tuplesOfFeatures(conversion.geojson.features)
        plain == geojsonToThree(undeclared(conversion.geojson.features),
                                conversion.options)
    IN /\ \A k \in 1..Len(tuples) : transformCoordinates(tuples[k], code) = tuples[k]
       /\ conversion.result.threw = plain.threw
       /\ ~conversion.result.threw =>
            /\ conversion.result.children = plain.children
            /\ conversion.result.centroid = plain.centroid
            /\ conversion.result.boundingBox = plain.boundingBox

\* A conversion that called transformCoordinates with the unregistered
\* code EPSG:999999 and gave primitives.
C18_Witness ==
  /\ conversion.called
  /\ ~conversion.result.threw
  /\ getProjectionCode(conversion.geojson) = "EPSG:999999"
  /\ conversion.result.shouldTransform
  /\ conversion.result.children # << >>

(***************************************************************************)
(* Properties of computeCameraPosition called on its own.                  *)
(***************************************************************************)
\* 1000000 / (2 * tan(fov * pi / 360)) / sqrt(3) for the same fields of view.
tanFactor(fov) ==
  CASE fov = 50 -> 619066
    [] fov = 90 -> 288675

\* The offset of the camera from the centre of the box, in millionths.
framingOffset ==
  [k \in 1..3 |-> framing.position[k] - boxCenter(framing.boundingBox, 1)[k]]

maxSizeOf(boundingBox) ==
  Max2(getSize(boundingBox)[1], Max2(getSize(boundingBox)[2], getSize(boundingBox)[3]))

\* The component of the offset at distance max(h, h / aspect) along
\* (1, -1, 1), with h = maxSize / (2 * tan(fov * pi / 360)).
tanOffset(boundingBox, fov, aspect) ==
  Max2(maxSizeOf(boundingBox) * tanFactor(fov),
       (maxSizeOf(boundingBox) * tanFactor(fov) * aspect[2]) \div aspect[1])

Abs(x) == IF x < 0 THEN 0 - x ELSE x

\* C19: the camera is placed along (1, -1, 1) from the centre of the box,
\* at the distance max(h, h / aspect) with h = maxSize / (2 * tan(fov * pi /
\* 360)), to within a thousandth of that distance.
C19_DistanceIsTangentBased ==
  framing.called =>
    LET k == framingOffset[1]
        expected == tanOffset(framing.boundingBox, framing.fov, framing.aspect)
    IN /\ framingOffset = << k, 0 - k, k >>
       /\ k >= 0
       /\ Abs(k - expected) * 1000 <= expected

\* C20: for a box without extent, or an empty box, the camera is at a
\* strictly positive distance from the centre of the box.
C20_DegenerateBoxKeepsDistance ==
  (framing.called /\ maxSizeOf(framing.boundingBox) = 0) =>
    /\ framingOffset[1] > 0
    /\ framingOffset = << framingOffset[1], 0 - framingOffset[1], framingOffset[1] >>

(***************************************************************************)
(* Properties of the helpers loadGeoJSON builds.                           *)
(***************************************************************************)
\* The children of the scene of the given kinds.
sceneObjectsOf(kinds) ==
  {sceneChildren[i] : i \in {j \in 1..Len(sceneChildren) :
                               objects[sceneChildren[j]].kind \in kinds}}

\* loadGeoJSON has just returned with content attached.
justLoaded ==
  lastCall = Returned("loadGeoJSON") /\ lastLoad = "loaded"

\* C21: after a load the grid has a positive size of at most 1000000 and
\* between 1 and 1000 divisions, and the directional light is at most
\* 1000000 away on each axis.
C21_HelpersAreClampedAndNotDegenerate ==
  justLoaded =>
    /\ \A g \in sceneObjectsOf({"GridHelper"}) :
         /\ objects[g].info.size > 0
         /\ objects[g].info.size <= 1000000
         /\ objects[g].info.divisions > 0
         /\ objects[g].info.divisions <= 1000
    /\ \A d \in sceneObjectsOf({"DirectionalLight"}) :
         objects[d].info.position.num <= 1000000 * objects[d].info.position.den

(***************************************************************************)
(* Properties of the polygon paths of geojsonToThree.                      *)
(***************************************************************************)
\* The polygons of feature i (their lists of rings), and the meshes built
\* for feature i, in order.
polygonsOf(i) ==
  IF conversion.geojson.features[i].geometry.type = "Polygon"
  THEN << sourceGeometry(i).coordinates >>
  ELSE sourceGeometry(i).coordinates

meshesOf(i) ==
  SelectSeq([k \in 1..Len(conversion.result.children) |-> k],
            LAMBDA k : /\ conversion.result.children[k].feature = i
                       /\ conversion.result.children[k].kind = "Mesh")

\* The conversion took the 3D path without extrusion.
fanPath ==
  /\ conversion.called
  /\ ~conversion.result.threw
  /\ has3DCoordinates(conversion.geojson.features)
  /\ ~conversion.options.extrude

centredRing(ring) == [k \in 1..Len(ring) |-> centered(ring[k], expectedCentroid)]

\* C22: in the 3D path without extrusion every polygon gives one mesh whose
\* vertices all come from ring 0; with n >= 3 vertices the index holds the
\* n - 2 triangles (0, i, i + 1), i = 1..n - 2, every index below n, and
\* with fewer than 3 vertices the mesh has no index.
C22_FanTriangulationOfRingZero ==
  fanPath =>
    \A i \in polygonFeatures :
      /\ Len(meshesOf(i)) = Len(polygonsOf(i))
      /\ \A p \in 1..Len(polygonsOf(i)) :
           LET mesh == conversion.result.children[meshesOf(i)[p]]
               n == Len(mesh.vertices)
           IN /\ \A v \in 1..n : InSeq(mesh.vertices[v], centredRing(polygonsOf(i)[p][1]))
              /\ n <= Len(polygonsOf(i)[p][1])
              /\ Len(mesh.index) = (IF n >= 3 THEN n - 2 ELSE 0)
              /\ \A t \in 1..Len(mesh.index) :
                   /\ mesh.index[t] = << 0, t, t + 1 >>
                   /\ t + 1 < n

\* A polygon with an interior ring was triangulated into two triangles or
\* more.
C22_Witness ==
  /\ fanPath
  /\ \E i \in polygonFeatures :
       /\ Len(polygonsOf(i)[1]) >= 2
       /\ Len(conversion.result.children[meshesOf(i)[1]].index) >= 2

\* The exterior ring without its last point when that point repeats the
\* first one, and the whole ring otherwise.
withoutClosingPoint(ring) ==
  IF Len(ring) >= 2 /\ ring[Len(ring)] = ring[1]
  THEN SubSeq(ring, 1, Len(ring) - 1)
  ELSE ring

\* C23: in the 3D path without extrusion the vertices of a polygon's mesh
\* are the points of its exterior ring, the last one left out only when it
\* is the same as the first.
C23_OnlyARepeatedLastPointIsDropped ==
  fanPath =>
    \A i \in polygonFeatures :
      \A p \in 1..Min2(Len(polygonsOf(i)), Len(meshesOf(i))) :
        conversion.result.children[meshesOf(i)[p]].vertices
          = centredRing(withoutClosingPoint(polygonsOf(i)[p][1]))

(***************************************************************************)
(* Properties of the has3D flag and of the centroid.                       *)
(***************************************************************************)
\* Feature i has a geometry that is a TIN or a PolyhedralSurface, or one of
\* a recognised type with a coordinate tuple of more than two components.
carriesZ(feature) ==
  /\ feature.geometry # NULL
  /\ \/ feature.geometry.type \in {"TIN", "PolyhedralSurface"}
     \/ /\ tupleDepth(feature.geometry.type) >= 0
        /\ \E k \in 1..Len(tuplesOf(feature.geometry.coordinates,
                                      tupleDepth(feature.geometry.type))) :
             Len(tuplesOf(feature.geometry.coordinates,
                          tupleDepth(feature.geometry.type))[k]) > 2

RECURSIVE componentSum(_, _)
componentSum(tuples, k) ==
  IF tuples = << >> THEN 0
  ELSE (IF Len(Head(tuples)) >= k THEN Head(tuples)[k] ELSE 0)
       + componentSum(Tail(tuples), k)

\* The only feature of the input is a Point and no CRS is declared.
singlePoint ==
  /\ conversion.geojson.crs = NULL
  /\ Len(conversion.geojson.features) = 1
  /\ conversion.geojson.features[1].geometry # NULL
  /\ conversion.geojson.features[1].geometry.type = "Point"

C26_ThreeLightsAndOneGridAfterEachLoad ==
  justLoaded =>
    /\ Cardinality(sceneObjectsOf({"AmbientLight"})) = 1
    /\ Cardinality(sceneObjectsOf({"DirectionalLight"})) = 1
    /\ Cardinality(sceneObjectsOf({"HemisphereLight"})) = 1
    /\ Cardinality(sceneObjectsOf({"GridHelper"})) = 1
    /\ \A id \in sceneObjectsOf(Lights \cup {"GridHelper"}) : id > currentObject

\* A second load has attached content over the lights and the grid of a
\* first one.
C26_Witness ==
  /\ justLoaded
  /\ loads = 2
  /\ \E r \in DOMAIN resources : resources[r].disposed >= 1

(***************************************************************************)
(* Properties of the style of the content across reloads and layer events. *)
(***************************************************************************)
\* The layer with the given id among the entries, NULL when there is none.
layerOf(entries, id) ==
  IF \E k \in DOMAIN entries : entries[k].id = id
  THEN entries[CHOOSE k \in DOMAIN entries : entries[k].id = id].layer
  ELSE NULL

\* The change is the one the document model reports for the step from the
\* layers before to the layers after: a record carries the layer as it is
\* after the step (nothing for a removed layer), and every layer that
\* differs has a record.
reportedChange(before, after, change) ==
  /\ \A k \in DOMAIN change : change[k].newValue = layerOf(after, change[k].id)
  /\ \A id \in {before[k].id : k \in DOMAIN before} \cup {after[k].id : k \in DOMAIN after} :
       layerOf(before, id) # layerOf(after, id) =>
         \E k \in DOMAIN change : change[k].id = id

\* The mesh materials of the content cur in the heap objs.
meshMaterialsIn(cur, objs) ==
  {objs[objs[cur].children[i]].material :
     i \in {j \in DOMAIN objs[cur].children : objs[objs[cur].children[j]].kind = "Mesh"}}

\* When there is content and the first extruded layer defines an opacity,
\* every mesh material of the content has it.
styleFollowsLayer(v, cur, objs, res, entries) ==
  ( /\ v # null
    /\ cur # null
    /\ layer3D(entries) # NULL
    /\ "opacity" \in DOMAIN layer3D(entries).parameters ) =>
    \A m \in meshMaterialsIn(cur, objs) :
      /\ res[m].opacity = layer3D(entries).parameters.opacity
      /\ res[m].transparent = (layer3D(entries).parameters.opacity < 100)

\* C27: on a mounted ThreeView, a reload or a layer-change event reported
\* by the document model keeps the mesh materials of the content at the
\* opacity of the first extruded layer, whenever that layer defines one.
C27_StyleStep ==
  ( /\ styleFollowsLayer(viewer, currentObject, objects, resources, gisLayers)
    /\ lastEvent'.handler \in {"componentDidMount", "componentDidUpdate", "_onLayersChanged"}
    /\ lastEvent'.handler = "_onLayersChanged" =>
         reportedChange(gisLayers, gisLayers', lastEvent'.change) ) =>
    styleFollowsLayer(viewer', currentObject', objects', resources', gisLayers')

C27_ContentKeepsTheLayerOpacity == [][C27_StyleStep]_vars

(***************************************************************************)
(* Further properties of the SFCGAL command.                               *)
(***************************************************************************)
\* C28: every invocation of the command that has started ends up completed
\* (with a new layer, an error dialog or a silent return), whatever the user
\* does with the parameter form.
C28_EveryInvocationCompletes ==
  \A i \in Invocations :
    (invocations[i].pc # "idle") ~> (invocations[i].pc = "done")

\* C29: the file of a file-backed result is saved in the directory of the
\* document whose model the invocation captured, the one that receives the
\* new source and layer, whatever happens to the tracker's current widget
\* in the meantime.
C29_FileIsSavedNextToItsDocument ==
  \A i \in Invocations :
    Len(invocations[i].savePath) > 0 =>
      invocations[i].savePath[1] = jgisDir(invocations[i].model)

\* C30: the file an invocation has saved still holds that invocation's
\* result, and no two invocations have saved to the same path.
C30_SavedFilesAreNotOverwritten ==
  \A i \in Invocations :
    Has(invocations[i].log, "saved") =>
      /\ files[invocations[i].savePath] = i
      /\ \A j \in Invocations \ {i} :
           Has(invocations[j].log, "saved") =>
             invocations[j].savePath # invocations[i].savePath

====
